---- MODULE Spec2Model ----
(***************************************************************************)
(* seamless_payments: the event tracker (db/event_tracking.py), the        *)
(* persistence mapper (db/init.py), the storage engine (db/model.py) and   *)
(* the vendor operations that emit events (resources/paypal.py,            *)
(* resources/stripe.py).                                                   *)
(*                                                                         *)
(* Coroutines are modelled at their suspension points: a piece of code     *)
(* between two awaits that really suspend is one atomic step.              *)
(***************************************************************************)
EXTENDS Integers, Sequences, FiniteSets, TLC

(* ------------------------------------------------------------------ *)
(* Bounds                                                              *)
(* ------------------------------------------------------------------ *)

\* calls (track_event / handle_payment_event / initialize) started in a run
MaxCalls == 2
\* add_handler calls in a run
MaxHandlers == 2
\* rows in the store when it is queried
MaxRows == 3
\* distinct created_at values
MaxTime == 2
\* the values of max_retries a client is configured with: 0..MaxRetries
MaxRetries == 3
MaxClock == 2
MaxRequests == 3
MaxEvents == 3

\* the concurrently running asyncio tasks
Tasks == {"a", "b"}

None == "None"

(* ------------------------------------------------------------------ *)
(* Strings: Python str as a sequence of one-character strings          *)
(* ------------------------------------------------------------------ *)

UpperLetters ==
    << "A", "B", "C", "D", "E", "F", "G", "H", "I", "J", "K", "L", "M", "N", "O",
       "P", "Q", "R", "S", "T", "U", "V", "W", "X", "Y", "Z" >>

LowerLetters ==
    << "a", "b", "c", "d", "e", "f", "g", "h", "i", "j", "k", "l", "m", "n", "o",
       "p", "q", "r", "s", "t", "u", "v", "w", "x", "y", "z" >>

\* str.lower() of one character
LowerChar(c) ==
    IF \E k \in 1..Len(UpperLetters) : UpperLetters[k] = c
    THEN LowerLetters[CHOOSE k \in 1..Len(UpperLetters) : UpperLetters[k] = c]
    ELSE c

\* str.lower()
StrLower(s) == [i \in 1..Len(s) |-> LowerChar(s[i])]

\* sub in s
StrContains(s, sub) ==
    \E i \in 1..(Len(s) - Len(sub) + 1) : SubSeq(s, i, i + Len(sub) - 1) = sub

S_failed == <<"f", "a", "i", "l", "e", "d">>
S_Failed == <<"F", "a", "i", "l", "e", "d">>
S_FAILED == <<"F", "A", "I", "L", "E", "D">>
S_succeeded == <<"s", "u", "c", "c", "e", "e", "d", "e", "d">>
S_completed == <<"c", "o", "m", "p", "l", "e", "t", "e", "d">>
S_COMPLETED == <<"C", "O", "M", "P", "L", "E", "T", "E", "D">>
S_fail == <<"f", "a", "i", "l">>
S_fail_ed == <<"f", "a", "i", "l", "_", "e", "d">>
S_card_failed_x == <<"c", "_", "F", "a", "I", "l", "E", "d", "_", "x">>
S_empty == <<>>

(* ------------------------------------------------------------------ *)
(* PaymentEventType, TransactionStatus                                 *)
(* ------------------------------------------------------------------ *)

\* the members of the enum PaymentEventType, by name
PaymentEventType ==
    { "TRANSACTION_STARTED", "INVOICE_DRAFT_CREATED", "INVOICE_FINALISED",
      "INVOICE_ITEM_CREATED", "PAYMENT_INTENT_CREATED", "PAYMENT_INTENT_UPDATED",
      "PAYMENT_INTENT_CANCELED", "PAYMENT_METHOD_ATTACHED", "PAYMENT_CONFIRMED",
      "PAYMENT_CAPTURED", "PAYMENT_FAILED", "REFUND_INITIATED", "REFUND_COMPLETED",
      "CUSTOMER_CREATED", "CUSTOMER_UPDATED", "CUSTOMER_DELETED",
      "CUSTOMER_RETRIEVED", "TRANSACTION_COMPLETED", "PAYPAL_ORDER_CREATED",
      "PAYPAL_INVOICE_CREATED" }

\* the values of the enum TransactionStatus
TransactionStatus ==
    { "partially_refunded", "started", "pending", "succeeded", "failed",
      "refunded", "completed" }

\* _map_event_to_status with the capture test before the "failed" test
MapStatusCaptureFirst(event_type, status) ==
    IF event_type = "PAYMENT_CAPTURED" THEN "succeeded"
    ELSE IF StrContains(StrLower(status), S_failed) THEN "failed"
    ELSE "pending"

\* DatabaseIntegration._map_event_to_status
_map_event_to_status(event_type, status) ==
    IF StrContains(StrLower(status), S_failed) THEN "failed"
    ELSE IF event_type = "PAYMENT_CAPTURED" THEN "succeeded"
    ELSE IF event_type = "PAYMENT_INTENT_CREATED" THEN "pending"
    ELSE IF event_type = "PAYMENT_CONFIRMED" THEN "pending"
    ELSE "pending"

(* ------------------------------------------------------------------ *)
(* Exceptions                                                          *)
(* ------------------------------------------------------------------ *)

\* classes derived from Exception: what "except Exception" catches
ExceptionClasses ==
    { "HandlerError", "ValidationError", "IntegrityError", "OperationalError",
      "RuntimeError", "TypeError", "ValueError", "AttributeError" }

\* classes derived from BaseException only (asyncio.CancelledError,
\* KeyboardInterrupt, SystemExit): "except Exception" lets them pass
BaseOnlyClasses == { "CancelledError" }

IsException(x) == x \in ExceptionClasses

(* ------------------------------------------------------------------ *)
(* PaymentEvent                                                        *)
(* ------------------------------------------------------------------ *)

EventIds == {"e1", "e2"}
TransactionIds == {"t1", "t2"}

\* PaymentEvent instances.  An event's type and vendor status, and whether
\* its monetary snapshot is known (amount and currency are Optional)
EventShapes ==
    { <<"PAYPAL_INVOICE_CREATED", S_succeeded, "10.0">>,
      <<"PAYMENT_CAPTURED", S_succeeded, "10.0">>,
      <<"PAYMENT_CAPTURED", S_Failed, None>> }

PaymentEvent(i, x, sh) ==
    [ event_id |-> i, transaction_id |-> x, event_type |-> sh[1],
      processor |-> "paypal", status |-> sh[2], amount |-> sh[3],
      currency |-> IF sh[3] = None THEN None ELSE "USD",
      parent_event_id |-> IF i = "e2" THEN "e1" ELSE None ]

\* the events submitted to handle_payment_event
MapperEvents ==
    { PaymentEvent(i, x, sh) : i \in EventIds, x \in TransactionIds,
                               sh \in EventShapes }

\* the events submitted to the tracker that has the mapper as its handler
Events ==
    { PaymentEvent("e1", "t1", <<"PAYMENT_CAPTURED", S_succeeded, "10.0">>),
      PaymentEvent("e2", "t1", <<"PAYMENT_CAPTURED", S_Failed, "10.0">>) }

\* an invoice-created event e1 and a payment-captured event e2 whose parent is
\* e1, of one transaction
FlowEvents ==
    { PaymentEvent("e1", "t1", <<"PAYPAL_INVOICE_CREATED", S_succeeded, "10.0">>),
      PaymentEvent("e2", "t1", <<"PAYMENT_CAPTURED", S_succeeded, "10.0">>) }

\* the events submitted to a tracker with arbitrary handlers
TrackerEvents ==
    { PaymentEvent("e1", "t1", <<"PAYMENT_CAPTURED", S_succeeded, "10.0">>),
      PaymentEvent("e2", "t1", <<"PAYMENT_CAPTURED", S_Failed, None>>) }

NoEvent ==
    [ event_id |-> None, transaction_id |-> None, event_type |-> None,
      processor |-> None, status |-> S_empty, amount |-> None, currency |-> None,
      parent_event_id |-> None ]

(* ------------------------------------------------------------------ *)
(* TransactionBase: the record handle_payment_event builds             *)
(* ------------------------------------------------------------------ *)

NoRow ==
    [ event_id |-> None, transaction_id |-> None, event_type |-> None,
      payment_processor |-> None, status |-> None, amount |-> None,
      currency |-> None, parent_event_id |-> None ]

\* TransactionBase(**transaction_data): the required fields amount: float and
\* currency: str reject None with a ValidationError
TransactionBaseValidates(ev) == ev.amount # None /\ ev.currency # None

\* the transaction_data of handle_payment_event
TransactionData(ev) ==
    [ event_id |-> ev.event_id, transaction_id |-> ev.transaction_id,
      event_type |-> ev.event_type, payment_processor |-> ev.processor,
      status |-> _map_event_to_status(ev.event_type, ev.status),
      amount |-> ev.amount, currency |-> ev.currency,
      parent_event_id |-> ev.parent_event_id ]

(* ------------------------------------------------------------------ *)
(* State                                                               *)
(* ------------------------------------------------------------------ *)

VARIABLES
    tracking_enabled,   \* PaymentEventTracker._tracking_enabled
    handlers,           \* PaymentEventTracker._handlers
    added,              \* the logger.info records of add_handler, in order
    db,                 \* DatabaseIntegration._db
    initialized,        \* DatabaseIntegration._initialized
    initOutcome,        \* how the last initialize call with a supported db_type ended
    table,              \* the committed rows of table "transactions", in insert order
    call,               \* the coroutines started: call number -> its frame
    calls,              \* how many coroutines were started
    seen,               \* what the recording handler was given: <<call, event_id>>, in order
    log,                \* logger.error records
    op,                 \* the vendor operation in progress
    st_in,              \* an (event_type, status) pair given to _map_event_to_status
    derived,            \* what _map_event_to_status returned for it
    txn,                \* the payment_transaction context in progress
    query,              \* a get_transactions_by_customer call: arguments and result
    tpe,                \* the track_payment_event context in progress
    records,            \* a get_resource_records call: arguments and outcome
    storage,            \* the storage operations started and the sessions open
    req,                \* the _make_request call of a vendor client
    initLog,            \* the initialize calls made: db_type and outcome, in order
    meta,               \* the processor_metadata of an event and of its record
    keys,               \* the clock and the idempotency keys of the PayPal requests sent
    intent,             \* the confirm_and_capture call of each payment intent
    customer,           \* the Customer.create_or_get call in progress
    made                \* the PaymentEvent objects constructed: when, and their created_at

trackerVars == << tracking_enabled, handlers, added >>
mapperVars == << db, initialized, initOutcome >>
callVars == << call, calls, seen, log >>
statusVars == << st_in, derived >>
\* the state of the functions examined on their own
pureVars == << meta, keys, intent, customer, made >>
miscVars == << initLog, pureVars >>
besidesMeta == << keys, intent, customer, made >>
besidesKeys == << meta, intent, customer, made >>
besidesIntent == << meta, keys, customer, made >>
besidesCustomer == << meta, keys, intent, made >>
besidesMade == << meta, keys, intent, customer >>
lateVars == << records, storage, req, miscVars >>
sideVars == << txn, query, tpe, lateVars >>

vars == << tracking_enabled, handlers, added, db, initialized, initOutcome, table,
           call, calls, seen, log, op, st_in, derived, txn, query, tpe,
           records, storage, req, initLog, meta,
           keys,
           intent,
           customer,
           made >>

\* the handlers a caller registers: the mapper's bound method
\* handle_payment_event, a handler that records the event, and one that raises
HandlerIds == {"mapper", "rec", "thrower"}

\* what a raising handler raises
Raised == {"HandlerError", "CancelledError"}

\* the frame of a coroutine that was not started
IdleCall ==
    [ pc |-> "idle", kind |-> None, ev |-> NoEvent, idx |-> 0, invoked |-> <<>>,
      enabledAtCall |-> FALSE, regAtCall |-> 0, dbAtCall |-> None,
      initAtCall |-> None, outcome |-> None, sfail |-> FALSE, row |-> NoRow ]

\* no vendor operation
NoOp == [ name |-> None, pc |-> "idle", stage |-> 0, txn |-> None,
          vendorFailed |-> FALSE, frame |-> 0, result |-> None ]

\* no payment_transaction context was entered
NoTxn ==
    [ pc |-> "none", transaction_id |-> None, entry_id |-> None,
      operations |-> 0, adds |-> <<>>, body |-> None, exits |-> 0,
      outcome |-> None ]

\* no get_transactions_by_customer call was made
NoQuery ==
    [ pc |-> "idle", customer_id |-> None, limit |-> 0, offset |-> 0,
      before |-> <<>>, result |-> <<>> ]

\* no get_resource_records call was made
NoRecords ==
    [ pc |-> "idle", resource_id |-> None, processor |-> None,
      before |-> <<>>, outcome |-> None, result |-> <<>> ]

\* a storage operation that was not called
IdleStorage == [ name |-> None, pc |-> "idle", opened |-> 0, outcome |-> None ]

\* no storage operation was called, no AsyncSession is open; engine is
\* SQLAlchemyDatabase._engine, None until initialize has run
NoStorage ==
    [ engine |-> None, open |-> 0, frames |-> [ i \in 1..MaxCalls |-> IdleStorage ] ]

\* no exception
NoError == [ class |-> None, message |-> None, http_status |-> None ]

\* no _make_request call was made
NoReq ==
    [ pc |-> "idle", site |-> None, vendor |-> None, method |-> None,
      key |-> None, max_retries |-> 0, attempt |-> 0, tattempt |-> 0,
      sent |-> 0, token_sent |-> 0, access_token |-> None, keys |-> {},
      last |-> None, thrown |-> NoError, outcome |-> None, error |-> NoError ]

\* no track_payment_event context was entered
NoTpe ==
    [ pc |-> "none", event |-> NoEvent, frame |-> 0, body |-> None,
      raised |-> None, outcome |-> None ]

\* the dict {}
EmptyDict == [ k \in {} |-> None ]

\* no event was built for the metadata mapping
NoMeta ==
    [ pc |-> "idle", event_type |-> None, vendor |-> EmptyDict, stored |-> EmptyDict ]

\* no vendor request was sent with an idempotency key
NoKeys == [ now |-> 0, sent |-> << >> ]

\* the payment intents confirm_and_capture is called for
IntentIds == {"pi_1", "pi_2"}

\* confirm_and_capture was not called for a payment intent
IdleIntent ==
    [ pc |-> "idle", requests |-> << >>, confirm |-> None, capture |-> None,
      outcome |-> None, error |-> None ]
NoIntents == [ p \in IntentIds |-> IdleIntent ]

\* Customer.create_or_get was not called
NoCustomer ==
    [ pc |-> "idle", email |-> None, max_retries |-> 0, attempt |-> 0,
      exists |-> FALSE, last |-> [ status |-> None, message |-> << >> ],
      caught |-> NoError, searched |-> FALSE, outcome |-> None, error |-> NoError ]

\* the functions examined on their own have not been called
PureInit ==
    /\ meta = NoMeta
    /\ keys = NoKeys
    /\ intent = NoIntents
    /\ customer = NoCustomer
    /\ made = << >>

\* PaymentEventTracker.__init__
TrackerInit == tracking_enabled = FALSE /\ handlers = <<>> /\ added = <<>>

\* DatabaseIntegration.__init__
MapperInit == db = None /\ initialized = FALSE /\ initOutcome = None

\* A mapper whose _db holds an initialised DatabaseInterface implementation,
\* next to the fresh one: the state handle_payment_event runs in once the
\* storage is set up (initialize, line 37, is the only assignment to _db).
MapperWithStorage ==
    db \in {None, "db"} /\ initialized = FALSE /\ initOutcome = None

\* everything but the mapper's fields, after construction
RestInit ==
    /\ TrackerInit
    /\ table = <<>>
    /\ call = [i \in 1..MaxCalls |-> IdleCall]
    /\ calls = 0
    /\ seen = <<>>
    /\ log = {}
    /\ op = NoOp
    /\ derived = None
    /\ txn = NoTxn
    /\ tpe = NoTpe
    /\ records = NoRecords
    /\ storage = NoStorage
    /\ req = NoReq
    /\ initLog = <<>>
    /\ PureInit

Init ==
    MapperInit /\ RestInit /\ st_in = << None, S_empty >> /\ query = NoQuery

InitStorage ==
    /\ MapperWithStorage /\ RestInit
    /\ st_in = << None, S_empty >> /\ query = NoQuery

(* ------------------------------------------------------------------ *)
(* PaymentEventTracker                                                 *)
(* ------------------------------------------------------------------ *)

\* PaymentEventTracker.enable_tracking
enable_tracking ==
    /\ tracking_enabled' = TRUE
    /\ UNCHANGED << handlers, added, mapperVars, table, callVars, op, statusVars,
                    sideVars >>

\* a disable_tracking that also forgets the registered handlers
disable_tracking_forgetting ==
    /\ tracking_enabled' = FALSE
    /\ handlers' = <<>>
    /\ UNCHANGED << added, mapperVars, table, callVars, op, statusVars,
                    sideVars >>

\* PaymentEventTracker.disable_tracking
disable_tracking ==
    /\ tracking_enabled' = FALSE
    /\ UNCHANGED << handlers, added, mapperVars, table, callVars, op, statusVars,
                    sideVars >>

\* add_handler that registers a handler once
add_handler_once(h) ==
    /\ Len(added) < MaxHandlers
    /\ added' = Append(added, h)
    /\ handlers' = IF \E k \in 1..Len(handlers) : handlers[k] = h
                   THEN handlers ELSE Append(handlers, h)
    /\ UNCHANGED << tracking_enabled, mapperVars, table, callVars, op, statusVars, sideVars >>

\* PaymentEventTracker.add_handler
add_handler(h) ==
    /\ Len(handlers) < MaxHandlers
    /\ added' = Append(added, h)
    /\ handlers' = Append(handlers, h)
    /\ UNCHANGED << tracking_enabled, mapperVars, table, callVars, op, statusVars, sideVars >>

\* the handler a frame is about to invoke
CurrentHandler(c) == IF c.kind = "handle" THEN "mapper" ELSE handlers[c.idx]

\* track_event with the loop left at the first handler exception
ResumeStopsAtFailure(c, x, hs) ==
    IF c.kind = "handle"
    THEN [c EXCEPT !.pc = "done", !.row = NoRow,
                   !.outcome = IF x = "ok" THEN "returned" ELSE x]
    ELSE IF x # "ok" /\ ~IsException(x)
    THEN [c EXCEPT !.pc = "done", !.outcome = x, !.row = NoRow]
    ELSE IF x = "ok" /\ c.idx < Len(hs)
    THEN [c EXCEPT !.pc = "loop", !.idx = c.idx + 1, !.row = NoRow]
    ELSE [c EXCEPT !.pc = "done", !.outcome = "returned", !.row = NoRow]

\* track_event without its try/except
ResumePropagates(c, x, hs) ==
    IF x # "ok"
    THEN [c EXCEPT !.pc = "done", !.outcome = x, !.row = NoRow]
    ELSE IF c.kind = "track" /\ c.idx < Len(hs)
    THEN [c EXCEPT !.pc = "loop", !.idx = c.idx + 1, !.row = NoRow]
    ELSE [c EXCEPT !.pc = "done", !.outcome = "returned", !.row = NoRow]

\* track_event, lines 94-98: what the frame does when the handler it awaited
\* ends with x ("ok" or the class of what it raised); hs is the handler list
\* then.  "except Exception" swallows an Exception and the loop goes on; anything
\* else raised leaves track_event.  A direct call of handle_payment_event ends
\* with x.
Resume(c, x, hs) ==
    IF c.kind = "handle"
    THEN [c EXCEPT !.pc = "done", !.row = NoRow,
                   !.outcome = IF x = "ok" THEN "returned" ELSE x]
    ELSE IF x # "ok" /\ ~IsException(x)
    THEN [c EXCEPT !.pc = "done", !.outcome = x, !.row = NoRow]
    ELSE IF c.idx < Len(hs)
    THEN [c EXCEPT !.pc = "loop", !.idx = c.idx + 1, !.row = NoRow]
    ELSE [c EXCEPT !.pc = "done", !.outcome = "returned", !.row = NoRow]

\* track_event, line 98: the logger.error of a caught handler exception
TrackerLog(i, c, x) ==
    IF c.kind = "track" /\ IsException(x)
    THEN {[call |-> i, by |-> "tracker", exc |-> x]}
    ELSE {}

\* handle_payment_event, line 78: the logger.error of a caught storage exception
MapperLog(i, c, x) == {[call |-> i, by |-> "mapper", exc |-> x]}

\* track_event that does not test _tracking_enabled
TrackCallIgnoresFlag(ev) ==
    IF Len(handlers) = 0
    THEN [IdleCall EXCEPT !.pc = "done", !.kind = "track", !.ev = ev,
                          !.enabledAtCall = tracking_enabled, !.dbAtCall = db,
                          !.initAtCall = initOutcome, !.outcome = "returned"]
    ELSE [IdleCall EXCEPT !.pc = "loop", !.kind = "track", !.ev = ev, !.idx = 1,
                          !.enabledAtCall = tracking_enabled, !.dbAtCall = db,
                          !.initAtCall = initOutcome,
                          !.regAtCall = Len(handlers)]

\* track_event, lines 86-94: the frame of a call, up to its first handler
TrackCall(ev) ==
    IF ~tracking_enabled \/ Len(handlers) = 0
    THEN [IdleCall EXCEPT !.pc = "done", !.kind = "track", !.ev = ev,
                          !.enabledAtCall = tracking_enabled, !.dbAtCall = db,
                          !.initAtCall = initOutcome,
                          !.regAtCall = Len(handlers), !.outcome = "returned"]
    ELSE [IdleCall EXCEPT !.pc = "loop", !.kind = "track", !.ev = ev, !.idx = 1,
                          !.enabledAtCall = tracking_enabled, !.dbAtCall = db,
                          !.initAtCall = initOutcome,
                          !.regAtCall = Len(handlers)]

\* the tasks running a call
InFlight == { i \in 1..MaxCalls : call[i].pc \notin {"idle", "done"} }

\* a caller awaits event_tracker.track_event(ev)
track_event(ev) ==
    /\ calls < MaxCalls
    /\ Cardinality(InFlight) < Cardinality(Tasks)
    /\ calls' = calls + 1
    /\ call' = [call EXCEPT ![calls + 1] = TrackCall(ev)]
    /\ UNCHANGED << trackerVars, mapperVars, table, seen, log, op, statusVars, sideVars >>

\* a caller awaits db_integration.handle_payment_event(ev) itself
handle_call(ev) ==
    /\ calls < MaxCalls
    /\ Cardinality(InFlight) < Cardinality(Tasks)
    /\ calls' = calls + 1
    /\ call' = [call EXCEPT ![calls + 1] =
                   [IdleCall EXCEPT !.pc = "loop", !.kind = "handle", !.ev = ev,
                                    !.idx = 1,
                                    !.enabledAtCall = tracking_enabled,
                                    !.dbAtCall = db, !.initAtCall = initOutcome]]
    /\ UNCHANGED << trackerVars, mapperVars, table, seen, log, op, statusVars, sideVars >>

(* ------------------------------------------------------------------ *)
(* Storage engine: table "transactions" and SQLAlchemyDatabase         *)
(* ------------------------------------------------------------------ *)

\* table "transactions" without the unique constraint
NoUniqueConstraint(r, rs) == FALSE

\* Column("event_id", unique=True), UniqueConstraint("event_id"): whether the
\* committed rows rs forbid inserting row r
UniqueViolation(r, rs) == \E k \in 1..Len(rs) : rs[k].event_id = r.event_id

\* the storage engine makes an INSERT wait while another session holds an
\* uncommitted row with the same unique key
InsertBlocked(i) ==
    \E j \in 1..MaxCalls :
        /\ j # i
        /\ call[j].pc = "commit"
        /\ UniqueViolation(call[i].row, << call[j].row >>)

\* SQLAlchemyDatabase.get_transaction: the first row of the transaction and
\* processor, or None
get_transaction(transaction_id, payment_processor) ==
    LET ks == { k \in 1..Len(table) :
                  /\ table[k].transaction_id = transaction_id
                  /\ table[k].payment_processor = payment_processor }
    IN  IF ks = {} THEN NoRow
        ELSE table[CHOOSE k \in ks : \A m \in ks : k <= m]

(* ------------------------------------------------------------------ *)
(* DatabaseIntegration.handle_payment_event                            *)
(* ------------------------------------------------------------------ *)

\* lines 51-76, up to the await in create_transaction: "ok" (no storage
\* handle: the event is skipped), the exception raised to the caller, "caught"
\* (create_transaction raised before its first await: the engine property
\* raises RuntimeError when SQLAlchemyDatabase.initialize never ran), or
\* "await" (the INSERT is sent)
MapperBegin(ev) ==
    IF db = None THEN "ok"
    ELSE IF ~TransactionBaseValidates(ev) THEN "ValidationError"
    ELSE IF db = "db_no_engine" THEN "caught"
    ELSE "await"

\* track_event line 96, or a direct call: the frame invokes its current handler
Invoke(i) ==
    /\ call[i].pc = "loop"
    /\ LET c == [call[i] EXCEPT !.invoked = Append(@, CurrentHandler(call[i]))]
           h == CurrentHandler(call[i])
           b == MapperBegin(call[i].ev)
       IN
       \/ /\ h = "rec"
          /\ seen' = Append(seen, << i, c.ev.event_id >>)
          /\ call' = [call EXCEPT ![i] = Resume(c, "ok", handlers)]
          /\ UNCHANGED log
       \/ /\ h = "thrower"
          /\ \E x \in Raised :
                /\ call' = [call EXCEPT ![i] = Resume(c, x, handlers)]
                /\ log' = log \cup TrackerLog(i, c, x)
          /\ UNCHANGED seen
       \/ /\ h = "mapper"
          /\ b \in {"ok", "ValidationError"}
          /\ call' = [call EXCEPT ![i] = Resume(c, b, handlers)]
          /\ log' = log \cup TrackerLog(i, c, b)
          /\ UNCHANGED seen
       \/ /\ h = "mapper"
          /\ b = "caught"
          /\ call' = [call EXCEPT ![i] = Resume(c, "ok", handlers)]
          /\ log' = log \cup MapperLog(i, c, "RuntimeError")
          /\ UNCHANGED seen
       \/ /\ h = "mapper"
          /\ b = "await"
          /\ call' = [call EXCEPT ![i] =
                         [c EXCEPT !.pc = "execute", !.row = TransactionData(c.ev)]]
          /\ UNCHANGED << seen, log >>
    /\ UNCHANGED << trackerVars, mapperVars, table, calls, op, statusVars, sideVars >>

\* create_transaction line 89, await session.execute(stmt), seen from
\* handle_payment_event lines 75-78: the INSERT is refused (IntegrityError on a
\* duplicate event_id, OperationalError when the storage fails), which the
\* mapper catches and logs, or it is pending in the session
Execute(i) ==
    /\ call[i].pc = "execute"
    /\ \/ /\ UniqueViolation(call[i].row, table)
          /\ call' = [call EXCEPT ![i] = Resume(call[i], "ok", handlers)]
          /\ log' = log \cup MapperLog(i, call[i], "IntegrityError")
       \/ /\ call' = [call EXCEPT ![i] =
                         Resume([call[i] EXCEPT !.sfail = TRUE], "ok", handlers)]
          /\ log' = log \cup MapperLog(i, call[i], "OperationalError")
       \/ /\ ~UniqueViolation(call[i].row, table)
          /\ ~InsertBlocked(i)
          /\ call' = [call EXCEPT ![i].pc = "commit"]
          /\ UNCHANGED log
    /\ UNCHANGED << trackerVars, mapperVars, table, calls, seen, op, statusVars, sideVars >>

\* create_transaction lines 90-92, await session.commit(): the row is stored,
\* or the commit fails and the session rolls back
Commit(i) ==
    /\ call[i].pc = "commit"
    /\ \/ /\ table' = Append(table, call[i].row)
          /\ call' = [call EXCEPT ![i] = Resume(call[i], "ok", handlers)]
          /\ UNCHANGED log
       \/ /\ call' = [call EXCEPT ![i] =
                         Resume([call[i] EXCEPT !.sfail = TRUE], "ok", handlers)]
          /\ log' = log \cup MapperLog(i, call[i], "OperationalError")
          /\ UNCHANGED table
    /\ UNCHANGED << trackerVars, mapperVars, calls, seen, op, statusVars, sideVars >>

(* ------------------------------------------------------------------ *)
(* DatabaseFactory and DatabaseIntegration.initialize                  *)
(* ------------------------------------------------------------------ *)

\* the values of the enum DatabaseType
DatabaseType == {"sqlite", "postgres", "mysql"}

\* the db_type arguments given to initialize
DbTypeInputs == {"sqlite", "oracle"}

\* the abstract methods of DatabaseInterface
DatabaseInterfaceAbstract ==
    { "engine", "get_session", "initialize", "create_transaction",
      "update_transaction_status", "get_transaction",
      "get_transactions_by_customer", "close" }

\* the methods SQLAlchemyDatabase defines
SQLAlchemyDatabaseDefines ==
    { "engine", "get_session", "initialize", "create_transaction",
      "get_transaction", "get_transactions_by_customer", "get_resource_records",
      "close" }

\* SQLAlchemyDatabase(database_url, db_type): instantiating a class that leaves
\* an abstract method undefined raises TypeError; __init__ leaves _engine None
SQLAlchemyDatabaseNew ==
    IF DatabaseInterfaceAbstract \subseteq SQLAlchemyDatabaseDefines
    THEN [exc |-> "ok", value |-> "db_no_engine", awaitable |-> FALSE]
    ELSE [exc |-> "TypeError", value |-> None, awaitable |-> FALSE]

\* DatabaseFactory.create_database, a plain (not async) static method
create_database(db_type) ==
    IF db_type \notin DatabaseType
    THEN [exc |-> "ValueError", value |-> None, awaitable |-> FALSE]
    ELSE SQLAlchemyDatabaseNew

\* "await x": x's exception if evaluating x raised, TypeError if x is no awaitable
AwaitValue(r) ==
    IF r.exc # "ok" \/ r.awaitable THEN r
    ELSE [exc |-> "TypeError", value |-> None, awaitable |-> FALSE]

\* initialize with the handler registered and tracking enabled before the
\* storage backend is created
initialize_handler_first(db_type) ==
    LET r == AwaitValue(create_database(db_type)) IN
    /\ Len(initLog) < MaxCalls
    /\ IF initialized
       THEN /\ initOutcome' = "returned"
            /\ UNCHANGED << db, initialized, trackerVars >>
       ELSE /\ added' = Append(added, "mapper")
            /\ handlers' = Append(handlers, "mapper")
            /\ tracking_enabled' = TRUE
            /\ initOutcome' = IF r.exc # "ok" THEN r.exc ELSE "returned"
            /\ db' = IF r.exc # "ok" THEN db ELSE r.value
            /\ initialized' = (r.exc = "ok")
    /\ initLog' = Append(initLog, [ db_type |-> db_type, outcome |-> initOutcome' ])
    /\ UNCHANGED << table, callVars, op, statusVars, txn, query, tpe,
                    records, storage, req, pureVars >>

\* DatabaseIntegration.initialize.  Nothing in it suspends before line 37 and
\* add_handler and enable_tracking do not suspend: one step.
initialize(db_type) ==
    LET r == AwaitValue(create_database(db_type)) IN
    /\ Len(initLog) < MaxCalls
    /\ IF initialized
       THEN /\ initOutcome' = "returned"
            /\ UNCHANGED << db, initialized, trackerVars >>
       ELSE IF r.exc # "ok"
       THEN /\ initOutcome' = r.exc
            /\ UNCHANGED << db, initialized, trackerVars >>
       ELSE /\ db' = r.value
            /\ added' = Append(added, "mapper")
            /\ handlers' = Append(handlers, "mapper")
            /\ tracking_enabled' = TRUE
            /\ initialized' = TRUE
            /\ initOutcome' = "returned"
    /\ initLog' = Append(initLog, [ db_type |-> db_type, outcome |-> initOutcome' ])
    /\ UNCHANGED << table, callVars, op, statusVars, txn, query, tpe,
                    records, storage, req, pureVars >>

(* ------------------------------------------------------------------ *)
(* Vendor operations (resources/paypal.py, resources/stripe.py)        *)
(* ------------------------------------------------------------------ *)

OpNames ==
    { "paypal.Invoice.create", "paypal.Order.create_from_invoice",
      "paypal.Order.capture", "stripe.Invoice.create",
      "stripe.PaymentIntent.capture" }

\* the PaymentEventType member an operation names for the event it tracks after
\* each of its vendor requests; PaymentIntent.capture tracks none
OpEvents(name) ==
    CASE name = "paypal.Invoice.create" -> << "PAYPAL_INVOICE_CREATED" >>
      [] name = "paypal.Order.create_from_invoice" -> << "PAYPAL_ORDER_CREATED" >>
      [] name = "paypal.Order.capture" -> << "PAYPAL_ORDER_CAPTURED" >>
      [] name = "stripe.Invoice.create" ->
            << "INVOICE_CREATED", "INVOICE_ITEM_CREATED", "INVOICE_FINALISED" >>
      [] name = "stripe.PaymentIntent.capture" -> << >>

\* what _make_request gives an operation: the body of a successful response,
\* a body that lacks what the operation needs (no "id", a capture that is not
\* COMPLETED), or the client's exception after its retries
VendorResponses == {"ok", "incomplete", "error"}

\* what the operation raises on a body that lacks what it needs
IncompleteError(name) ==
    CASE name = "paypal.Invoice.create" -> "PayPalInvoiceCreationError"
      [] name = "paypal.Order.create_from_invoice" -> "KeyError"
      [] name = "paypal.Order.capture" -> "PayPalPaymentCaptureError"
      [] name = "stripe.Invoice.create" -> "StripeInvoiceCreationError"
      [] name = "stripe.PaymentIntent.capture" -> "StripePaymentIntentError"

\* what reaches the caller when Exception x is raised in the operation's body:
\* Invoice.create of either vendor wraps it ("except Exception ... raise ... from
\* e"), Order.create_from_invoice and Order.capture have no handler
Wrapped(name, x) ==
    CASE name = "paypal.Invoice.create" -> "PayPalInvoiceCreationError"
      [] name = "stripe.Invoice.create" -> "StripeInvoiceCreationError"
      [] OTHER -> x

\* the event an operation builds after a successful vendor request; the
\* finalised event of stripe Invoice.create is built without transaction_id
\* and gets the field's default, a new uuid4
OpEvent(k, o) ==
    [ event_id |-> ToString(k),
      transaction_id |-> IF OpEvents(o.name)[o.stage] = "INVOICE_FINALISED"
                         THEN "uuid4" ELSE o.txn,
      event_type |-> OpEvents(o.name)[o.stage],
      processor |-> IF o.name = "stripe.Invoice.create" THEN "stripe" ELSE "paypal",
      status |-> IF o.name = "stripe.Invoice.create" THEN S_completed
                 ELSE S_succeeded,
      amount |-> "10.0", currency |-> "USD", parent_event_id |-> None ]

\* a caller awaits the operation; it sends its first vendor request
StartOp(name, x) ==
    /\ op.pc = "idle"
    /\ calls < MaxCalls
    /\ op' = [NoOp EXCEPT !.name = name, !.pc = "request", !.stage = 1, !.txn = x]
    /\ UNCHANGED << trackerVars, mapperVars, table, callVars, statusVars, sideVars >>

\* the vendor request ends with r; on a successful body the operation builds
\* the event (looking up the PaymentEventType member raises AttributeError when
\* the enum has no such member) and awaits event_tracker.track_event
VendorReply(r) ==
    /\ op.pc = "request"
    /\ calls < MaxCalls
    /\ LET t == OpEvents(op.name)[op.stage] IN
       IF r = "error"
       THEN /\ op' = [op EXCEPT !.pc = "done", !.vendorFailed = TRUE,
                                !.result = Wrapped(op.name, "APIError")]
            /\ UNCHANGED << call, calls >>
       ELSE IF r = "incomplete"
       THEN /\ op' = [op EXCEPT !.pc = "done", !.vendorFailed = TRUE,
                         !.result = Wrapped(op.name, IncompleteError(op.name))]
            /\ UNCHANGED << call, calls >>
       ELSE IF OpEvents(op.name) = << >>
       THEN /\ op' = [op EXCEPT !.pc = "done", !.result = "ok"]
            /\ UNCHANGED << call, calls >>
       ELSE IF t \notin PaymentEventType
       THEN /\ op' = [op EXCEPT !.pc = "done",
                                !.result = Wrapped(op.name, "AttributeError")]
            /\ UNCHANGED << call, calls >>
       ELSE /\ op' = [op EXCEPT !.pc = "tracking", !.frame = calls + 1]
            /\ calls' = calls + 1
            /\ call' = [call EXCEPT ![calls + 1] = TrackCall(OpEvent(calls + 1, op))]
    /\ UNCHANGED << trackerVars, mapperVars, table, seen, log, statusVars, sideVars >>

\* track_event ended: the operation goes on to its next vendor request or
\* returns its result; what track_event raised leaves the operation ("except
\* Exception" does not catch it)
OpResume ==
    /\ op.pc = "tracking"
    /\ call[op.frame].pc = "done"
    /\ op' = IF call[op.frame].outcome # "returned"
             THEN [op EXCEPT !.pc = "done", !.result = call[op.frame].outcome]
             ELSE IF op.stage < Len(OpEvents(op.name))
             THEN [op EXCEPT !.pc = "request", !.stage = op.stage + 1]
             ELSE [op EXCEPT !.pc = "done", !.result = "ok"]
    /\ UNCHANGED << trackerVars, mapperVars, table, callVars, statusVars, sideVars >>

(* ------------------------------------------------------------------ *)
(* SQLAlchemyDatabase.get_transactions_by_customer                     *)
(* ------------------------------------------------------------------ *)

CustomerIds == {"c1", "c2"}

\* the default of the parameter limit
DefaultLimit == 100

\* the limit and offset arguments of the calls
Limits == {0, 1, 2, DefaultLimit}
Offsets == {0, 1, 2}

\* stored rows, by the columns the query reads and the key: row n of the table
\* has event_id n; customer_id is nullable; created_at is the utcnow of the
\* INSERT, which concurrent inserts and clock steps leave in any order
QueryRow(n, c, t) == [ event_id |-> ToString(n), customer_id |-> c, created_at |-> t ]

QueryTables ==
    UNION { { [ n \in 1..len |-> QueryRow(n, f[n][1], f[n][2]) ] :
                f \in [ 1..len -> (CustomerIds \cup {None}) \X (1..MaxTime) ] } :
            len \in 0..MaxRows }

\* the orders ORDER BY created_at DESC can give the rows numbered ks of rs:
\* rows of equal created_at come in any order
NewestFirst(rs, ks) ==
    { p \in [ 1..Cardinality(ks) -> ks ] :
        /\ \A a, b \in 1..Cardinality(ks) : a # b => p[a] # p[b]
        /\ \A a, b \in 1..Cardinality(ks) :
              a < b => rs[p[a]].created_at >= rs[p[b]].created_at }

\* ORDER BY created_at ascending
OldestFirst(rs, ks) ==
    { p \in [ 1..Cardinality(ks) -> ks ] :
        /\ \A a, b \in 1..Cardinality(ks) : a # b => p[a] # p[b]
        /\ \A a, b \in 1..Cardinality(ks) :
              a < b => rs[p[a]].created_at <= rs[p[b]].created_at }

\* LIMIT limit OFFSET offset of the ordered rows p
Page(rs, p, limit, offset) ==
    LET last == IF Len(p) < offset + limit THEN Len(p) ELSE offset + limit IN
    [ n \in 1..(IF last > offset THEN last - offset ELSE 0) |-> rs[p[offset + n]] ]

\* the query with the rows oldest first
QueryResultsOldestFirst(rs, customer_id, limit, offset) ==
    LET ks == { k \in 1..Len(rs) : rs[k].customer_id = customer_id } IN
    { Page(rs, p, limit, offset) : p \in OldestFirst(rs, ks) }

\* what select(transactions).where(customer_id == ...).order_by(
\* created_at.desc()).limit(limit).offset(offset) can return from rows rs
QueryResults(rs, customer_id, limit, offset) ==
    LET ks == { k \in 1..Len(rs) : rs[k].customer_id = customer_id } IN
    { Page(rs, p, limit, offset) : p \in NewestFirst(rs, ks) }

\* SQLAlchemyDatabase.get_transactions_by_customer(customer_id, limit, offset)
get_transactions_by_customer(customer_id, limit, offset) ==
    /\ query.pc = "idle"
    /\ \E r \in QueryResults(table, customer_id, limit, offset) :
          query' = [ pc |-> "done", customer_id |-> customer_id, limit |-> limit,
                     offset |-> offset, before |-> table, result |-> r ]
    /\ UNCHANGED << trackerVars, mapperVars, table, callVars, op, statusVars,
                    txn, tpe, lateVars >>

(* ------------------------------------------------------------------ *)
(* SQLAlchemyDatabase.get_resource_records                             *)
(* ------------------------------------------------------------------ *)

\* the columns of Table("transactions", ...)
TransactionColumns ==
    { "id", "transaction_id", "event_id", "event_type", "payment_processor",
      "resource_id", "status", "amount", "currency", "customer_id",
      "payment_method", "metadata", "processor_metadata", "parent_event_id",
      "created_at" }

\* the columns the statement of get_resource_records names as transactions.c.X:
\* the two of the WHERE clause, then the one of ORDER BY
ResourceRecordsColumns == << "resource_id", "processor", "created_at" >>

ResourceIdArgs == {"INV-1", "INV-2"}
ProcessorArgs == {"stripe", "paypal"}

\* transactions.c.<name> for each name of cols, in order: a name that is not
\* a column of the table raises AttributeError
ColumnLookup(cols) ==
    IF \E n \in 1..Len(cols) : cols[n] \notin TransactionColumns
    THEN "AttributeError" ELSE "ok"

\* the value of column name in row r (NULL when the row has none)
ColumnOf(r, name) == IF name \in DOMAIN r THEN r[name] ELSE None

\* select(transactions).where((resource_id == ...) & (<second column> == ...))
\* .order_by(created_at) over rows rs: rows of equal created_at in any order
ResourceRecordsResults(rs, cols, resource_id, processor) ==
    LET ks == { k \in 1..Len(rs) :
                  /\ ColumnOf(rs[k], cols[1]) = resource_id
                  /\ ColumnOf(rs[k], cols[2]) = processor }
    IN  { [ n \in 1..Len(p) |-> rs[p[n]] ] : p \in OldestFirst(rs, ks) }

\* SQLAlchemyDatabase.get_resource_records(resource_id, processor): the
\* statement is built first (lines 131-134), the session is opened after it
get_resource_records(resource_id, processor) ==
    /\ records.pc = "idle"
    /\ IF ColumnLookup(ResourceRecordsColumns) = "ok"
       THEN \E r \in ResourceRecordsResults(table, ResourceRecordsColumns,
                                            resource_id, processor) :
               records' = [ pc |-> "done", resource_id |-> resource_id,
                            processor |-> processor, before |-> table,
                            outcome |-> "returned", result |-> r ]
       ELSE records' = [ pc |-> "done", resource_id |-> resource_id,
                         processor |-> processor, before |-> table,
                         outcome |-> ColumnLookup(ResourceRecordsColumns),
                         result |-> <<>> ]
    /\ UNCHANGED << trackerVars, mapperVars, table, callVars, op, statusVars,
                    txn, tpe, query, storage, req, miscVars >>

(* ------------------------------------------------------------------ *)
(* SQLAlchemyDatabase: the session of each operation                   *)
(* ------------------------------------------------------------------ *)

\* the operations of SQLAlchemyDatabase that read or write the table
StorageOps ==
    { "create_transaction", "get_transaction", "get_transactions_by_customer",
      "get_resource_records" }

\* the columns each operation's statement names as transactions.c.X
StatementColumns(name) ==
    IF name = "get_transaction" THEN << "transaction_id", "payment_processor" >>
    ELSE IF name = "get_transactions_by_customer" THEN << "customer_id", "created_at" >>
    ELSE IF name = "get_resource_records" THEN ResourceRecordsColumns
    ELSE << >>

\* how session.execute, session.commit and the reading of the rows can end:
\* normally, with a database error, or with the task cancelled at the await
SessionOutcomes == { "ok", "IntegrityError", "OperationalError", "CancelledError" }

\* SQLAlchemyDatabase.initialize: the engine is created
storage_initialize ==
    /\ storage.engine = None
    /\ storage' = [ storage EXCEPT !.engine = "engine" ]
    /\ UNCHANGED << trackerVars, mapperVars, table, callVars, op, statusVars,
                    txn, tpe, query, records, req,
                    miscVars >>

\* an operation is called: its statement is built
StorageCall(i, name) ==
    /\ storage.frames[i].pc = "idle"
    /\ \A j \in 1..(i - 1) : storage.frames[j].pc # "idle"
    /\ storage' = [ storage EXCEPT !.frames[i] =
          IF ColumnLookup(StatementColumns(name)) # "ok"
          THEN [ name |-> name, pc |-> "done", opened |-> 0,
                 outcome |-> ColumnLookup(StatementColumns(name)) ]
          ELSE [ name |-> name, pc |-> "statement", opened |-> 0,
                 outcome |-> None ] ]
    /\ UNCHANGED << trackerVars, mapperVars, table, callVars, op, statusVars,
                    txn, tpe, query, records, req,
                    miscVars >>

\* async with AsyncSession(self.engine) as session: the engine property
\* raises RuntimeError when _engine is None, otherwise the session is opened
SessionEnter(i) ==
    /\ storage.frames[i].pc = "statement"
    /\ storage' =
          IF storage.engine = None
          THEN [ storage EXCEPT !.frames[i].pc = "done",
                                !.frames[i].outcome = "RuntimeError" ]
          ELSE [ storage EXCEPT !.frames[i].pc = "session",
                                !.frames[i].opened = @ + 1,
                                !.open = @ + 1 ]
    /\ UNCHANGED << trackerVars, mapperVars, table, callVars, op, statusVars,
                    txn, tpe, query, records, req,
                    miscVars >>

\* await session.execute(stmt): create_transaction goes on to commit, the
\* reads leave the block with their rows; an exception leaves the block
SessionExecute(i, x) ==
    /\ storage.frames[i].pc = "session"
    /\ storage' =
          IF x = "ok" /\ storage.frames[i].name = "create_transaction"
          THEN [ storage EXCEPT !.frames[i].pc = "executed" ]
          ELSE [ storage EXCEPT !.frames[i].pc = "exit", !.frames[i].outcome = x ]
    /\ UNCHANGED << trackerVars, mapperVars, table, callVars, op, statusVars,
                    txn, tpe, query, records, req,
                    miscVars >>

\* await session.commit() of create_transaction
SessionCommit(i, x) ==
    /\ storage.frames[i].pc = "executed"
    /\ storage' = [ storage EXCEPT !.frames[i].pc = "exit", !.frames[i].outcome = x ]
    /\ UNCHANGED << trackerVars, mapperVars, table, callVars, op, statusVars,
                    txn, tpe, query, records, req,
                    miscVars >>

\* AsyncSession.__aexit__: the session is closed, on a return and on an
\* exception alike, and the operation ends as its block ended
SessionExit(i) ==
    /\ storage.frames[i].pc = "exit"
    /\ storage' = [ storage EXCEPT !.frames[i].pc = "done", !.open = @ - 1 ]
    /\ UNCHANGED << trackerVars, mapperVars, table, callVars, op, statusVars,
                    txn, tpe, query, records, req,
                    miscVars >>

(* ------------------------------------------------------------------ *)
(* StripeClient._make_request and PayPalClient._make_request           *)
(* ------------------------------------------------------------------ *)

\* the calls of _make_request in resources/stripe.py and resources/paypal.py:
\* the vendor, the HTTP method, and whether idempotency_key is passed
RequestSites ==
    { [ name |-> "InvoiceItem.create", vendor |-> "stripe", method |-> "POST", key |-> "INVITEM" ],
      [ name |-> "Invoice._create_draft_invoice", vendor |-> "stripe", method |-> "POST", key |-> "DRAFT-INV" ],
      [ name |-> "Invoice._finalize_invoice", vendor |-> "stripe", method |-> "POST", key |-> None ],
      [ name |-> "PaymentIntent.create_from_invoice", vendor |-> "stripe", method |-> "POST", key |-> "invoice.id" ],
      [ name |-> "PaymentIntent.update", vendor |-> "stripe", method |-> "POST", key |-> None ],
      [ name |-> "PaymentIntent.confirm", vendor |-> "stripe", method |-> "POST", key |-> None ],
      [ name |-> "PaymentIntent.capture", vendor |-> "stripe", method |-> "POST", key |-> None ],
      [ name |-> "Customer.create", vendor |-> "stripe", method |-> "POST", key |-> "CUST" ],
      [ name |-> "Customer.retrieve", vendor |-> "stripe", method |-> "GET", key |-> None ],
      [ name |-> "Invoice.create", vendor |-> "paypal", method |-> "POST", key |-> "INV" ],
      [ name |-> "Order.create_from_invoice", vendor |-> "paypal", method |-> "POST", key |-> "invoice.invoice_id" ],
      [ name |-> "Order.capture", vendor |-> "paypal", method |-> "POST", key |-> "invoice_id" ] }

\* what the await of an HTTP request can give: a success, a 401, another
\* error status with a JSON body or with a body that is not JSON, a
\* transport error (httpx.TransportError, a timeout), or the cancellation
\* of the task
HttpAnswers == { "200", "401", "500", "500html", "transport", "cancelled" }

\* the keyword arguments the constructor of each exception class takes next
\* to the message: StripeAuthenticationError defines no __init__
ExceptionKeywords(class) ==
    IF class \in {"StripeAPIError", "PayPalAPIError"} THEN {"http_status", "json_body"}
    ELSE IF class = "PayPalAuthenticationError" THEN {"code"}
    ELSE {}

\* class(message, **kw): the exception built, or the TypeError of a keyword
\* the constructor does not take
Construct(class, message, kw) ==
    IF DOMAIN kw \subseteq ExceptionKeywords(class)
    THEN [ class |-> class, message |-> message,
           http_status |-> IF "http_status" \in DOMAIN kw THEN kw.http_status ELSE None ]
    ELSE [ class |-> "TypeError", message |-> "keyword", http_status |-> None ]

\* an exception of a class outside this repository
Foreign(class) == [ class |-> class, message |-> None, http_status |-> None ]

\* the status code of an answer that carries one
StatusCode(a) == IF a = "401" THEN "401" ELSE IF a = "200" THEN "200" ELSE "500"

\* the number of passes of "for attempt in range(max_retries)"
AttemptsOneMore(max_retries) == max_retries + 1

AttemptsAllowed(max_retries) == max_retries

\* the loop goes to its next pass, or ends without a return statement:
\* the function returns None
NextPass(r) ==
    IF r.attempt + 1 < AttemptsAllowed(r.max_retries)
    THEN [ r EXCEPT !.pc = "attempt", !.attempt = @ + 1 ]
    ELSE [ r EXCEPT !.pc = "done", !.outcome = "returned None" ]

\* the function raises e to its caller
Raise(r, e) == [ r EXCEPT !.pc = "done", !.outcome = "raised", !.error = e ]

\* an "except" clause of the retry loop that caught an exception: on the last
\* pass it raises final, otherwise it sleeps and the loop goes on
RetryOrRaise(r, final) ==
    IF r.attempt = r.max_retries - 1 THEN Raise(r, final) ELSE NextPass(r)

\* what the try block of StripeClient._make_request raises on answer a
\* (lines 84-102), None when it returns
StripeThrown(a) ==
    IF a = "401"
    THEN Construct("StripeAuthenticationError", "Invalid API key provided",
                   [ http_status |-> StatusCode(a) ])
    ELSE IF a = "500"
    THEN Construct("StripeAPIError", "vendor message",
                   [ http_status |-> StatusCode(a), json_body |-> "error_data" ])
    ELSE IF a = "500html" THEN Foreign("JSONDecodeError")
    ELSE IF a = "transport" THEN Foreign("TransportError")
    ELSE IF a = "cancelled" THEN Foreign("CancelledError")
    ELSE NoError

\* one pass of the loop of StripeClient._make_request, the request answered a:
\* nothing in the try block raises httpx.HTTPStatusError, every Exception
\* goes to "except Exception" (lines 112-117), CancelledError to the caller
StripeAttempt(r, a) ==
    LET r1 == [ r EXCEPT !.sent = @ + 1, !.keys = @ \cup {r.key}, !.last = a,
                         !.thrown = StripeThrown(a) ]
    IN  IF a = "200" THEN [ r1 EXCEPT !.pc = "done", !.outcome = "returned json" ]
        ELSE IF a = "cancelled" THEN Raise(r1, StripeThrown(a))
        ELSE RetryOrRaise(r1, Construct("StripeAPIError", "Stripe request failed",
                                        << >>))

\* one pass of the loop of PayPalClient._make_request, the request answered a
PayPalAttempt(r, a) ==
    LET r1 == [ r EXCEPT !.sent = @ + 1, !.keys = @ \cup {r.key}, !.last = a ]
    IN  IF a = "200" THEN [ r1 EXCEPT !.pc = "done", !.outcome = "returned json" ]
        ELSE IF a = "401" THEN [ r1 EXCEPT !.pc = "refresh", !.tattempt = 0 ]
        ELSE IF a = "500"
        THEN RetryOrRaise(r1, Construct("PayPalAPIError", "vendor message",
                                        [ http_status |-> StatusCode(a),
                                          json_body |-> "error_data" ]))
        ELSE IF a = "500html" THEN Raise(r1, Foreign("JSONDecodeError"))
        ELSE IF a = "cancelled" THEN Raise(r1, Foreign("CancelledError"))
        ELSE RetryOrRaise(r1, Construct("PayPalAPIError", "PayPal request failed",
                                        << >>))

\* _get_access_token returned (a token, or None when its loop made no pass)
\* or raised e (NoError when it returned)
TokenEnds(r, token, e) ==
    IF r.pc = "first_token"
    THEN \* line 105, before the retry loop
         IF e # NoError THEN Raise(r, e)
         ELSE IF AttemptsAllowed(r.max_retries) > 0
         THEN [ r EXCEPT !.pc = "attempt", !.attempt = 0, !.access_token = token ]
         ELSE [ r EXCEPT !.pc = "done", !.outcome = "returned None",
                         !.access_token = token ]
    ELSE \* line 127, inside the try block, followed by "continue"
         IF e = NoError THEN NextPass([ r EXCEPT !.access_token = token ])
         ELSE IF e.class = "CancelledError" THEN Raise(r, e)
         ELSE RetryOrRaise(r, Construct("PayPalAPIError", "PayPal request failed",
                                        << >>))

\* one pass of the loop of PayPalClient._get_access_token, answered a
TokenAttempt(r, a) ==
    LET r1 == [ r EXCEPT !.token_sent = @ + 1 ] IN
    IF a = "200" THEN TokenEnds(r1, "token", NoError)
    ELSE IF a = "cancelled" THEN TokenEnds(r1, None, Foreign("CancelledError"))
    ELSE IF r.tattempt = r.max_retries - 1
    THEN TokenEnds(r1, None, Construct("PayPalAuthenticationError",
                                       "PayPal authentication failed", << >>))
    ELSE [ r1 EXCEPT !.tattempt = @ + 1 ]

\* _make_request is called from site s by a client configured, or not, with
\* max_retries and (PayPal) holding an access token or none
make_request(s, configured, max_retries, token) ==
    /\ req.pc = "idle"
    /\ LET r == [ NoReq EXCEPT !.site = s.name, !.vendor = s.vendor,
                               !.method = s.method, !.key = s.key,
                               !.max_retries = max_retries,
                               !.access_token = IF s.vendor = "paypal"
                                                THEN token ELSE None ]
       IN  req' =
             IF ~configured
             THEN Raise(r, Construct(IF s.vendor = "stripe"
                                     THEN "StripeConfigurationError"
                                     ELSE "PayPalConfigurationError",
                                     "not configured", << >>))
             ELSE IF s.vendor = "paypal" /\ token = None
             THEN IF max_retries > 0
                  THEN [ r EXCEPT !.pc = "first_token" ]
                  ELSE TokenEnds([ r EXCEPT !.pc = "first_token" ], None, NoError)
             ELSE IF AttemptsAllowed(max_retries) > 0
             THEN [ r EXCEPT !.pc = "attempt" ]
             ELSE [ r EXCEPT !.pc = "done", !.outcome = "returned None" ]
    /\ UNCHANGED << trackerVars, mapperVars, table, callVars, op, statusVars,
                    txn, tpe, query, records, storage,
                    miscVars >>

\* await cls._session.request(...) of the current pass is answered
RequestAnswered(a) ==
    /\ req.pc = "attempt"
    /\ req' = IF req.vendor = "stripe" THEN StripeAttempt(req, a)
              ELSE PayPalAttempt(req, a)
    /\ UNCHANGED << trackerVars, mapperVars, table, callVars, op, statusVars,
                    txn, tpe, query, records, storage,
                    miscVars >>

\* await cls._session.post(...) of _get_access_token is answered
TokenAnswered(a) ==
    /\ req.pc \in {"first_token", "refresh"}
    /\ req' = TokenAttempt(req, a)
    /\ UNCHANGED << trackerVars, mapperVars, table, callVars, op, statusVars,
                    txn, tpe, query, records, storage,
                    miscVars >>

(* ------------------------------------------------------------------ *)
(* PaymentEventHandler (event_handler.py)                              *)
(* ------------------------------------------------------------------ *)

\* the event_data dictionaries a caller passes: the fields of
\* TransactionCreate, amount given or not
EventData ==
    { [ event_id |-> i, transaction_id |-> x, event_type |-> "PAYMENT_CAPTURED",
        payment_processor |-> "paypal", status |-> st, amount |-> a,
        currency |-> "USD", parent_event_id |-> None ] :
        i \in EventIds, x \in TransactionIds, st \in {"pending", "succeeded"},
        a \in {"10.0", None} }

\* how a call of update_transaction_status on the storage handle can end: the
\* method is abstract in DatabaseInterface and SQLAlchemyDatabase does not
\* define it, so it raises, or an implementation of the interface sets the
\* status of the transaction's record
UpdateOutcomes == {"updated", "AttributeError"}

\* the table after update_transaction_status(transaction_id, status,
\* payment_processor) of such an implementation
update_transaction_status(transaction_id, status, payment_processor) ==
    [ k \in 1..Len(table) |->
        IF /\ table[k].transaction_id = transaction_id
           /\ table[k].payment_processor = payment_processor
        THEN [table[k] EXCEPT !.status = status]
        ELSE table[k] ]

\* the frame of a PaymentEventHandler.handle_payment_event call that ended
\* with x: every exception is caught and logged, the call returns
HandlerFrame(d, x) ==
    [IdleCall EXCEPT !.pc = "done", !.kind = "handler", !.row = d,
                     !.dbAtCall = db, !.outcome = x]

\* PaymentEventHandler.handle_payment_event(event_data)
event_handler_handle(d) ==
    /\ calls < MaxCalls
    /\ calls' = calls + 1
    /\ LET i == calls + 1
           existing == get_transaction(d.transaction_id, d.payment_processor)
           caught(x) ==
               /\ log' = log \cup {[call |-> i, by |-> "handler", exc |-> x]}
               /\ table' = table
               /\ call' = [call EXCEPT ![i] = HandlerFrame(d, "logged")]
       IN  IF ~TransactionBaseValidates(d) THEN caught("ValidationError")
           ELSE IF db = None THEN caught("AttributeError")
           ELSE IF existing # NoRow
           THEN IF existing.status # d.status
                THEN \E u \in UpdateOutcomes :
                        IF u = "updated"
                        THEN /\ table' = update_transaction_status(
                                            d.transaction_id, d.status,
                                            d.payment_processor)
                             /\ call' = [call EXCEPT ![i] = HandlerFrame(d, "updated")]
                             /\ UNCHANGED log
                        ELSE caught(u)
                ELSE /\ call' = [call EXCEPT ![i] = HandlerFrame(d, "existing")]
                     /\ UNCHANGED << table, log >>
           ELSE \/ /\ ~UniqueViolation(d, table)
                   /\ table' = Append(table, d)
                   /\ call' = [call EXCEPT ![i] = HandlerFrame(d, "created")]
                   /\ UNCHANGED log
                \/ /\ UniqueViolation(d, table)
                   /\ caught("IntegrityError")
                \/ caught("OperationalError")
    /\ UNCHANGED << trackerVars, mapperVars, seen, op, statusVars, sideVars >>

(* ------------------------------------------------------------------ *)
(* track_payment_event (event_tracking.py)                             *)
(* ------------------------------------------------------------------ *)

\* the event types and resources a caller enters the context with
TpeEventTypes == {"PAYMENT_INTENT_CREATED", "TRANSACTION_COMPLETED"}
ResourceIds == {"INV-1"}
TpeResourceIds == {"pi_1", "pi_2"}

\* event_type.value
EventTypeValue(t) ==
    CASE t = "PAYMENT_INTENT_CREATED" -> "payment_intent_created"
      [] t = "TRANSACTION_COMPLETED" -> "transaction_completed"
      [] t = "PAYMENT_CAPTURED" -> "payment_captured"
      [] OTHER -> t

\* the parent_event_id of the event the context builds:
\* f"{parent_resource_id}-{event_type.value}", or None without a parent resource
ParentEventId(parent_resource_id, t) ==
    IF parent_resource_id = None THEN None
    ELSE parent_resource_id \o "-" \o EventTypeValue(t)

\* the event the context builds (event_id: the field's default, a new uuid4,
\* written as the number of the track_event call it is made for)
TpeEvent(k, t, x, resource_id, parent_resource_id) ==
    [ event_id |-> ToString(k), transaction_id |-> x, event_type |-> t,
      processor |-> "stripe", resource_id |-> resource_id,
      status |-> S_succeeded, amount |-> None,
      currency |-> None, parent_event_id |-> ParentEventId(parent_resource_id, t) ]

\* the failure event of the "except Exception" branch
TpeFailureEvent(k, ev) ==
    [ ev EXCEPT !.event_id = ToString(k), !.status = S_failed,
                !.parent_event_id = ev.event_id ]

\* what leaves the context when x (None: nothing) is being raised and the
\* "finally" block runs: for TRANSACTION_COMPLETED it calls end_transaction,
\* which reads self._current_transactions, an attribute no code assigns
AfterFinally(t, x) ==
    IF t = "TRANSACTION_COMPLETED" THEN "AttributeError"
    ELSE IF x = None THEN "returned"
    ELSE x

\* a caller enters "async with track_payment_event(...)": the event is built
\* and track_event awaited
track_payment_event(t, x, resource_id, parent_resource_id) ==
    /\ tpe.pc \in {"none", "done"}
    /\ calls < MaxCalls
    /\ LET ev == TpeEvent(calls + 1, t, x, resource_id, parent_resource_id) IN
       /\ tpe' = [NoTpe EXCEPT !.pc = "tracking", !.event = ev, !.frame = calls + 1]
       /\ call' = [call EXCEPT ![calls + 1] = TrackCall(ev)]
    /\ calls' = calls + 1
    /\ UNCHANGED << trackerVars, mapperVars, table, seen, log, op, statusVars,
                    txn, query, lateVars >>

\* track_event ended: the event is yielded to the body, or what track_event
\* raised passes "except Exception" and the "finally" block
TpeResume ==
    /\ tpe.pc = "tracking"
    /\ call[tpe.frame].pc = "done"
    /\ tpe' = IF call[tpe.frame].outcome = "returned"
              THEN [tpe EXCEPT !.pc = "body"]
              ELSE [tpe EXCEPT !.pc = "done", !.raised = call[tpe.frame].outcome,
                      !.outcome = AfterFinally(tpe.event.event_type,
                                               call[tpe.frame].outcome)]
    /\ UNCHANGED << trackerVars, mapperVars, table, callVars, op, statusVars,
                    txn, query, lateVars >>

\* the body of the async with ends with r (None: it completed); an Exception
\* is caught, a failure event is built and track_event awaited for it
BodyEnds(r) ==
    /\ tpe.pc = "body"
    /\ IF r # None /\ IsException(r)
       THEN /\ calls < MaxCalls
            /\ tpe' = [tpe EXCEPT !.pc = "failure", !.raised = r, !.body = r,
                                  !.frame = calls + 1]
            /\ call' = [call EXCEPT
                          ![calls + 1] = TrackCall(TpeFailureEvent(calls + 1, tpe.event))]
            /\ calls' = calls + 1
       ELSE /\ tpe' = [tpe EXCEPT !.pc = "done", !.raised = r,
                          !.body = IF r = None THEN "completed" ELSE r,
                          !.outcome = AfterFinally(tpe.event.event_type, r)]
            /\ UNCHANGED << call, calls >>
    /\ UNCHANGED << trackerVars, mapperVars, table, seen, log, op, statusVars,
                    txn, query, lateVars >>

\* track_event of the failure event ended: the body's exception is raised
\* again (or what track_event raised), through the "finally" block
FailureResume ==
    /\ tpe.pc = "failure"
    /\ call[tpe.frame].pc = "done"
    /\ LET x == IF call[tpe.frame].outcome = "returned" THEN tpe.raised
                ELSE call[tpe.frame].outcome IN
       tpe' = [tpe EXCEPT !.pc = "done",
                          !.outcome = AfterFinally(tpe.event.event_type, x)]
    /\ UNCHANGED << trackerVars, mapperVars, table, callVars, op, statusVars,
                    txn, query, lateVars >>

(* ------------------------------------------------------------------ *)
(* PaymentTransaction and payment_transaction (manager.py)             *)
(* ------------------------------------------------------------------ *)

\* what an operation passed to add gives: a result, or an exception it raises
OpResults == {"r1", "r2"}
OpOutcomes == OpResults \cup {"ValueError", "RuntimeError", "CancelledError"}

\* the argument add calls the operation with: self.transaction_id
OperandFresh(t) == IF t.transaction_id = "t1" THEN "t2" ELSE "t1"

Operand(t) == t.transaction_id

\* what add gives its caller when the operation gave r: "return result", or,
\* for an Exception, the print and a bare "raise" of the same exception; what
\* "except Exception" does not catch passes as it is
AddOutcomeWrapped(r) ==
    IF r \in OpResults THEN r
    ELSE IF IsException(r) THEN "RuntimeError"
    ELSE r

AddOutcome(r) ==
    IF r \in OpResults THEN r
    ELSE IF IsException(r) THEN r
    ELSE r

\* how the "async with payment_transaction()" statement ends when its body
\* ended with x (None: the body completed): an Exception is caught, __aexit__
\* is awaited and the same exception raised again; another exception is not
\* caught; after a completed body __aexit__(None, None, None) is awaited
ExitOutcome(x) ==
    IF x = None THEN "returned"
    ELSE IF IsException(x) THEN x
    ELSE x

\* how many times payment_transaction awaits txn.__aexit__ when its body ended
\* with x: once in "except Exception", once in "else", and not at all for an
\* exception that "except Exception" does not catch
ExitCalls(x) ==
    IF x = None THEN 1
    ELSE IF IsException(x) THEN 1
    ELSE 0

\* payment_transaction up to its yield: a transaction id from uuid4, a
\* PaymentTransaction with it, __aenter__
payment_transaction(id) ==
    /\ txn.pc = "none"
    /\ txn' = [NoTxn EXCEPT !.pc = "open", !.transaction_id = id, !.entry_id = id]
    /\ UNCHANGED << trackerVars, mapperVars, table, callVars, op, statusVars, query, tpe,
                    lateVars >>

\* the body awaits txn.add(operation): add calls operation(self.transaction_id)
\* and awaits what it returned
add ==
    /\ txn.pc = "open"
    /\ Len(txn.adds) < MaxCalls
    /\ txn' = [txn EXCEPT !.pc = "awaiting",
                          !.adds = Append(@, [passed |-> Operand(txn), invoked |-> 1,
                                              gave |-> None, got |-> None])]
    /\ UNCHANGED << trackerVars, mapperVars, table, callVars, op, statusVars, query, tpe,
                    lateVars >>

\* the awaited operation ends with r, and add with it
OperationEnds(r) ==
    /\ txn.pc = "awaiting"
    /\ LET n == Len(txn.adds) IN
       txn' = [txn EXCEPT !.pc = IF r \in OpResults THEN "open" ELSE "raised",
                          !.operations = IF r \in OpResults THEN @ + 1 ELSE @,
                          !.adds[n].gave = r,
                          !.adds[n].got = AddOutcome(r)]
    /\ UNCHANGED << trackerVars, mapperVars, table, callVars, op, statusVars, query, tpe,
                    lateVars >>

\* the body has its own handler around the add that raised, and goes on
BodyCatches ==
    /\ txn.pc = "raised"
    /\ txn' = [txn EXCEPT !.pc = "open"]
    /\ UNCHANGED << trackerVars, mapperVars, table, callVars, op, statusVars, query, tpe,
                    lateVars >>

\* the body ends, by completing or with the exception add raised
ContextExit ==
    /\ txn.pc \in {"open", "raised"}
    /\ LET x == IF txn.pc = "raised" THEN txn.adds[Len(txn.adds)].got ELSE None IN
       txn' = [txn EXCEPT !.pc = "exited", !.body = x, !.exits = @ + ExitCalls(x),
                          !.outcome = ExitOutcome(x)]
    /\ UNCHANGED << trackerVars, mapperVars, table, callVars, op, statusVars, query, tpe,
                    lateVars >>

(* ------------------------------------------------------------------ *)
(* _map_event_to_status on its own                                     *)
(* ------------------------------------------------------------------ *)

StatusStrings ==
    { S_failed, S_Failed, S_FAILED, S_succeeded, S_completed, S_COMPLETED, S_fail,
      S_fail_ed, S_card_failed_x, S_empty }

\* a caller applies _map_event_to_status to its event
Derive ==
    /\ derived = None
    /\ st_in[1] # None
    /\ derived' = _map_event_to_status(st_in[1], st_in[2])
    /\ UNCHANGED << trackerVars, mapperVars, table, callVars, op, st_in, sideVars >>

(* ------------------------------------------------------------------ *)
(* Specifications                                                      *)
(* ------------------------------------------------------------------ *)

\* the tracker with the mapper as its handler, and the mapper's storage
Next ==
    \/ enable_tracking
    \/ disable_tracking
    \/ add_handler("mapper")
    \/ \E ev \in Events : track_event(ev)
    \/ \E i \in 1..MaxCalls : Invoke(i)
    \/ \E i \in 1..MaxCalls : Execute(i)
    \/ \E i \in 1..MaxCalls : Commit(i)

Spec == InitStorage /\ [][Next]_vars

\* the mapper's initialize, and a flow tracked after it
NextInit ==
    \/ enable_tracking
    \/ disable_tracking
    \/ \E t \in DbTypeInputs : initialize(t)
    \/ \E ev \in FlowEvents : track_event(ev)

SpecInit == Init /\ [][NextInit]_vars

\* handle_payment_event called by itself
NextMapper ==
    \/ \E ev \in MapperEvents : handle_call(ev)
    \/ \E i \in 1..MaxCalls : Invoke(i)
    \/ \E i \in 1..MaxCalls : Execute(i)
    \/ \E i \in 1..MaxCalls : Commit(i)

SpecMapper == InitStorage /\ [][NextMapper]_vars

\* the tracker with handlers of a caller
NextTracker ==
    \/ enable_tracking
    \/ disable_tracking
    \/ \E h \in {"rec", "thrower"} : add_handler(h)
    \/ \E ev \in TrackerEvents : track_event(ev)
    \/ \E i \in 1..MaxCalls : Invoke(i)

SpecTracker == Init /\ [][NextTracker]_vars

\* the vendor operations over the tracker
NextOps ==
    \/ enable_tracking
    \/ disable_tracking
    \/ \E h \in {"rec", "thrower"} : add_handler(h)
    \/ \E name \in OpNames, x \in TransactionIds : StartOp(name, x)
    \/ \E r \in VendorResponses : VendorReply(r)
    \/ \E i \in 1..MaxCalls : Invoke(i)
    \/ OpResume

SpecOps == Init /\ [][NextOps]_vars

InitStatus ==
    /\ MapperInit /\ RestInit /\ query = NoQuery
    /\ st_in \in PaymentEventType \X StatusStrings

SpecStatus == InitStatus /\ [][Derive]_vars

\* one payment_transaction context and the operations added in it
NextTxn ==
    \/ \E id \in TransactionIds : payment_transaction(id)
    \/ add
    \/ \E r \in OpOutcomes : OperationEnds(r)
    \/ BodyCatches
    \/ ContextExit

SpecTxn == Init /\ [][NextTxn]_vars

\* track_payment_event contexts over the tracker
NextEvt ==
    \/ enable_tracking
    \/ disable_tracking
    \/ \E h \in {"rec", "thrower"} : add_handler(h)
    \/ \E t \in TpeEventTypes, x \in TransactionIds, r \in TpeResourceIds,
          pr \in ResourceIds \cup {None} : track_payment_event(t, x, r, pr)
    \/ \E i \in 1..MaxCalls : Invoke(i)
    \/ TpeResume
    \/ \E r \in {None, "ValueError", "CancelledError"} : BodyEnds(r)
    \/ FailureResume

SpecEvt == Init /\ [][NextEvt]_vars

\* PaymentEventHandler.handle_payment_event called by itself
NextHandler == \E d \in EventData : event_handler_handle(d)

SpecHandler == InitStorage /\ [][NextHandler]_vars

\* queries by customer of a store that holds rows
InitQuery ==
    /\ MapperInit /\ TrackerInit
    /\ table \in QueryTables
    /\ call = [i \in 1..MaxCalls |-> IdleCall]
    /\ calls = 0 /\ seen = <<>> /\ log = {} /\ op = NoOp
    /\ st_in = << None, S_empty >> /\ derived = None
    /\ txn = NoTxn /\ tpe = NoTpe /\ query = NoQuery /\ records = NoRecords
    /\ storage = NoStorage /\ req = NoReq /\ initLog = <<>>
    /\ PureInit

NextQuery ==
    \/ \E c \in CustomerIds, limit \in Limits, offset \in Offsets :
          get_transactions_by_customer(c, limit, offset)
    \/ \E r \in ResourceIdArgs, p \in ProcessorArgs : get_resource_records(r, p)

SpecQuery == InitQuery /\ [][NextQuery]_vars

\* storage operations called together, each with a session of its own
NextSession ==
    \/ storage_initialize
    \/ \E i \in 1..MaxCalls, name \in StorageOps : StorageCall(i, name)
    \/ \E i \in 1..MaxCalls : SessionEnter(i)
    \/ \E i \in 1..MaxCalls, x \in SessionOutcomes : SessionExecute(i, x)
    \/ \E i \in 1..MaxCalls, x \in SessionOutcomes : SessionCommit(i, x)
    \/ \E i \in 1..MaxCalls : SessionExit(i)

SpecSession == Init /\ [][NextSession]_vars

\* one _make_request call of a vendor client
NextClient ==
    \/ \E s \in RequestSites, configured \in BOOLEAN, m \in 0..MaxRetries,
          token \in {None, "token"} : make_request(s, configured, m, token)
    \/ \E a \in HttpAnswers : RequestAnswered(a)
    \/ \E a \in HttpAnswers : TokenAnswered(a)

\* the event loop runs the coroutine, and every awaited request is answered
\* or times out (httpx.AsyncClient(timeout=timeout))
SpecClient == Init /\ [][NextClient]_vars /\ WF_vars(NextClient)

(* ------------------------------------------------------------------ *)
(* Claims                                                              *)
(* ------------------------------------------------------------------ *)

\* the committed rows with event_id e
RowsOf(e) == { k \in 1..Len(table) : table[k].event_id = e }

\* how often x occurs in the sequence q
Count(q, x) == Cardinality({ k \in 1..Len(q) : q[k] = x })

DoneTrack(i) == call[i].kind = "track" /\ call[i].pc = "done"
DoneHandle(i) == call[i].kind = "handle" /\ call[i].pc = "done"

\* C1: two events with the same event_id, both submitted to
\* handle_payment_event of a mapper that has its storage, with no storage
\* failure: once both calls have ended there is exactly one stored record with
\* that event_id, the second call returned normally and a conflict was logged.
C1_IdempotentPersistence ==
    \A i, j \in 1..MaxCalls :
        ( /\ i < j
          /\ DoneHandle(i) /\ DoneHandle(j)
          /\ call[i].ev.event_id = call[j].ev.event_id
          /\ call[i].dbAtCall = "db"
          /\ ~call[i].sfail /\ ~call[j].sfail )
        => /\ Cardinality(RowsOf(call[i].ev.event_id)) = 1
           /\ call[j].outcome = "returned"
           /\ \E e \in log : e.call \in {i, j} /\ e.exc = "IntegrityError"

\* C1, for events that carry amount and currency (a lemma: what remains of C1
\* when TransactionBase accepts both events)
C1_ForMappableEvents ==
    \A i, j \in 1..MaxCalls :
        ( /\ i < j
          /\ DoneHandle(i) /\ DoneHandle(j)
          /\ call[i].ev.event_id = call[j].ev.event_id
          /\ TransactionBaseValidates(call[i].ev)
          /\ TransactionBaseValidates(call[j].ev)
          /\ call[i].dbAtCall = "db"
          /\ ~call[i].sfail /\ ~call[j].sfail )
        => /\ Cardinality(RowsOf(call[i].ev.event_id)) = 1
           /\ call[j].outcome = "returned"
           /\ \E e \in log : e.call \in {i, j} /\ e.exc = "IntegrityError"

\* C2: in every reachable state no two stored records have the same event_id,
\* also while submissions of one event are in flight together.
C2_OneRecordPerEventId ==
    \A k, m \in 1..Len(table) : k # m => table[k].event_id # table[m].event_id

\* C2's case: the mapper is registered once, call 1 sent its INSERT, and a call
\* started after it stored the same event_id first, so that call 1's INSERT was
\* refused by the unique constraint.
C2_Witness ==
    /\ Len(handlers) = 1
    /\ Len(table) = 1
    /\ table[1].event_id = call[1].ev.event_id
    /\ [call |-> 1, by |-> "mapper", exc |-> "IntegrityError"] \in log

\* the handlers a returned call invoked are the registered ones, each once, in
\* order, and every recording handler among them was given the call's event
InvokedAll(i) ==
    /\ Len(call[i].invoked) >= call[i].regAtCall
    /\ call[i].invoked = SubSeq(handlers, 1, Len(call[i].invoked))
    /\ Count(seen, << i, call[i].ev.event_id >>) = Count(call[i].invoked, "rec")
    /\ \A k \in 1..Len(seen) : seen[k][1] = i => seen[k][2] = call[i].ev.event_id

\* C3 as stated: a track_event call made with tracking enabled has, when it
\* ends, invoked every registered handler exactly once with its event, whatever
\* an earlier handler raised.
C3_HandlerIsolation ==
    \A i \in 1..MaxCalls : (DoneTrack(i) /\ call[i].enabledAtCall) => InvokedAll(i)

\* C3 as amended: the same, for a call in which no handler raised an exception
\* outside the Exception hierarchy (such a call ends at that handler and
\* raises it).
C3_HandlerIsolationOfExceptions ==
    \A i \in 1..MaxCalls :
        (DoneTrack(i) /\ call[i].enabledAtCall)
        => \/ InvokedAll(i) /\ call[i].outcome = "returned"
           \/ /\ call[i].outcome \in BaseOnlyClasses
              /\ call[i].invoked = SubSeq(handlers, 1, Len(call[i].invoked))
              /\ call[i].invoked[Len(call[i].invoked)] = "thrower"

\* C3's case: the first handler raised an Exception, the second, a recording
\* handler, was still invoked and observed the event.
C3_Witness ==
    \E i \in 1..MaxCalls :
        /\ DoneTrack(i)
        /\ call[i].invoked = << "thrower", "rec" >>
        /\ [call |-> i, by |-> "tracker", exc |-> "HandlerError"] \in log
        /\ Count(seen, << i, call[i].ev.event_id >>) = 1

\* C4 as stated: every track_event call returns normally.
C4_TrackerNeverRaises ==
    \A i \in 1..MaxCalls : DoneTrack(i) => call[i].outcome = "returned"

\* C4 as amended: a track_event call returns normally unless a handler raised
\* an exception outside the Exception hierarchy; no Exception of a handler
\* leaves track_event, and a call made with tracking disabled returns normally.
C4_NoExceptionCrosses ==
    \A i \in 1..MaxCalls :
        DoneTrack(i)
        => /\ call[i].outcome \notin ExceptionClasses
           /\ call[i].outcome \in {"returned"} \cup BaseOnlyClasses
           /\ ~call[i].enabledAtCall => call[i].outcome = "returned"

\* C4's case: a handler raised an Exception, it was logged, the call returned.
C4_Witness ==
    \E i \in 1..MaxCalls :
        /\ DoneTrack(i)
        /\ call[i].outcome = "returned"
        /\ "thrower" \in { call[i].invoked[k] : k \in 1..Len(call[i].invoked) }
        /\ [call |-> i, by |-> "tracker", exc |-> "HandlerError"] \in log

\* C5: a track_event call made while tracking is disabled ends at once, invokes
\* no handler, logs no error and returns normally; every stored record is the
\* record of an event tracked while tracking was enabled, and get_transaction
\* returns none for a transaction whose events were all tracked while disabled.
C5_DisabledNoOp ==
    /\ \A i \in 1..MaxCalls :
          (call[i].kind = "track" /\ ~call[i].enabledAtCall)
          => /\ call[i].pc = "done"
             /\ call[i].invoked = <<>>
             /\ call[i].outcome = "returned"
             /\ \A e \in log : e.call # i
    /\ \A k \in 1..Len(table) :
          \E i \in 1..MaxCalls :
             /\ call[i].kind = "track"
             /\ call[i].enabledAtCall
             /\ table[k] = TransactionData(call[i].ev)
    /\ \A x \in TransactionIds :
          (\A i \in 1..MaxCalls :
              call[i].ev.transaction_id = x => ~call[i].enabledAtCall)
          => get_transaction(x, "paypal") = NoRow

\* C5's case: the mapper is registered and has its storage, an event it could
\* store was tracked while tracking was disabled, and nothing is stored.
C5_Witness ==
    \E i \in 1..MaxCalls :
        /\ DoneTrack(i)
        /\ ~call[i].enabledAtCall
        /\ call[i].regAtCall > 0
        /\ call[i].dbAtCall = "db"
        /\ TransactionBaseValidates(call[i].ev)
        /\ tracking_enabled
        /\ table = <<>>

\* C6: a vendor operation succeeds exactly when its vendor requests did: its
\* result is not decided by the building, tracking or storing of an event.
C6_OutcomeFollowsVendor ==
    op.pc = "done" => (op.result = "ok" <=> ~op.vendorFailed)

\* C7: every handle_payment_event call returns normally.
C7_MapperNeverRaises ==
    \A i \in 1..MaxCalls : DoneHandle(i) => call[i].outcome = "returned"

\* "failed" occurs in s in some letter case
HasFailedAnyCase(s) ==
    \E p \in 1..Len(s) :
        /\ p + 5 <= Len(s)
        /\ s[p] \in {"f", "F"}
        /\ s[p + 1] \in {"a", "A"}
        /\ s[p + 2] \in {"i", "I"}
        /\ s[p + 3] \in {"l", "L"}
        /\ s[p + 4] \in {"e", "E"}
        /\ s[p + 5] \in {"d", "D"}

\* C8: the derived status is FAILED when the status string contains "failed"
\* in any letter case, whatever the event type; otherwise SUCCEEDED for the
\* capture-completion type; otherwise PENDING.
C8_StatusDerivation ==
    derived # None
    => derived = IF HasFailedAnyCase(st_in[2]) THEN "failed"
                 ELSE IF st_in[1] = "PAYMENT_CAPTURED" THEN "succeeded"
                 ELSE "pending"

\* C8's case: a capture-completion event whose status has "failed" in mixed
\* case inside a longer string.
C8_Witness ==
    /\ st_in = << "PAYMENT_CAPTURED", S_card_failed_x >>
    /\ derived = "failed"

\* an initialize call with a supported db_type has ended (it was the last one)
InitializeCalled(o) == o \in {"returned", "TypeError"}

\* C9: initialize was called with a supported storage configuration, then an
\* invoice-created event e1 and a payment-captured event e2 with parent e1, of
\* one transaction, were tracked: two distinct records of that transaction are
\* stored, the second with status SUCCEEDED.
C9_EndToEndRecording ==
    \A i, j \in 1..MaxCalls :
        ( /\ i < j
          /\ DoneTrack(i) /\ DoneTrack(j)
          /\ InitializeCalled(call[i].initAtCall)
          /\ call[i].ev.event_type = "PAYPAL_INVOICE_CREATED"
          /\ call[j].ev.event_type = "PAYMENT_CAPTURED"
          /\ call[j].ev.parent_event_id = call[i].ev.event_id
          /\ call[i].ev.transaction_id = call[j].ev.transaction_id )
        => \E k, m \in 1..Len(table) :
              /\ k # m
              /\ table[k].event_id = call[i].ev.event_id
              /\ table[m].event_id = call[j].ev.event_id
              /\ table[k].transaction_id = table[m].transaction_id
              /\ table[m].status = "succeeded"

EndedAdds == { n \in 1..Len(txn.adds) : txn.adds[n].gave # None }

\* C11: add returns the operation's result as it is; an exception the
\* operation raises leaves add as the same exception, and leaves the context
\* as the same exception when the body lets it pass; a completed body ends the
\* context normally; the operation of an add is invoked once, also when it
\* raised.
C11_AddPassesOutcome ==
    /\ \A n \in EndedAdds :
          /\ txn.adds[n].got = txn.adds[n].gave
          /\ txn.adds[n].invoked = 1
    /\ txn.operations = Cardinality({ n \in EndedAdds : txn.adds[n].gave \in OpResults })
    /\ txn.pc = "exited"
       => IF txn.body = None
          THEN txn.outcome = "returned"
          ELSE /\ txn.outcome = txn.body
               /\ txn.body = txn.adds[Len(txn.adds)].gave

\* C11's case: an operation raised an Exception, add raised the same one and
\* the context ended with it.
C11_Witness ==
    /\ txn.pc = "exited"
    /\ Len(txn.adds) = 2
    /\ txn.adds[1].got \in OpResults
    /\ txn.adds[2].gave = "ValueError"
    /\ txn.body = "ValueError"
    /\ txn.outcome = "ValueError"

\* C12: every operation added in a context is called with the context's
\* transaction_id, which is from entry to exit the id the context was entered
\* with.
C12_TransactionIdStable ==
    txn.pc # "none"
    => /\ txn.transaction_id = txn.entry_id
       /\ txn.transaction_id \in TransactionIds
       /\ \A n \in 1..Len(txn.adds) : txn.adds[n].passed = txn.entry_id

\* C12's case: a failing and a successful operation were added, the context
\* was left, and both were called with its id.
C12_Witness ==
    /\ txn.pc = "exited"
    /\ Len(txn.adds) = 2
    /\ txn.adds[1].gave = "RuntimeError"
    /\ txn.adds[2].gave = "r1"
    /\ txn.adds[2].passed = txn.transaction_id

C13_TrackedEventsCarryId ==
    \A i \in 1..MaxCalls :
        call[i].kind = "track" => call[i].ev.transaction_id = op.txn

\* C14: the records of one transaction are in the store in the order in which
\* track_event was called for their events: a record stored before another
\* belongs to an event tracked by an earlier call.
C14_StoredInCallOrder ==
    \A k, m \in 1..Len(table) :
        (k < m /\ table[k].transaction_id = table[m].transaction_id)
        => \E i, j \in 1..MaxCalls :
              /\ i < j
              /\ call[i].kind = "track" /\ call[j].kind = "track"
              /\ call[i].ev.event_id = table[k].event_id
              /\ call[j].ev.event_id = table[m].event_id

\* what a query of the store by transaction_id gives: get_transaction's row
RecordsByTransaction(x) ==
    IF get_transaction(x, "paypal") = NoRow THEN {}
    ELSE { get_transaction(x, "paypal") }

\* the stored records of transaction x
StoredOf(x) ==
    { table[k] : k \in { m \in 1..Len(table) : table[m].transaction_id = x } }

\* C15: when the events of a transaction were stored with their chain (each
\* record that has a parent_event_id has its parent's record stored with
\* it), the query by transaction_id gives every record of the transaction.
C15_CausalChain ==
    \A x \in TransactionIds :
        (\A r \in StoredOf(x) :
            r.parent_event_id # None
            => \E q \in StoredOf(x) : q.event_id = r.parent_event_id)
        => RecordsByTransaction(x) = StoredOf(x)

\* C16: a parent_event_id that is set on an event submitted to the tracker is
\* the event_id of an event of the same transaction that was submitted by an
\* earlier call.
C16_ParentRecordedEarlier ==
    \A i \in 1..MaxCalls :
        (call[i].kind = "track" /\ call[i].ev.parent_event_id # None)
        => \E j \in 1..MaxCalls :
              /\ j < i
              /\ call[j].kind = "track"
              /\ call[j].ev.event_id = call[i].ev.parent_event_id
              /\ call[j].ev.transaction_id = call[i].ev.transaction_id

\* C16, for the failure events (a lemma: their parent_event_id is the
\* event_id of the context's event, submitted by the call before)
C16_FailureEventParent ==
    \A i \in 1..MaxCalls :
        (call[i].kind = "track" /\ call[i].ev.status = S_failed)
        => \E j \in 1..MaxCalls :
              /\ j < i
              /\ call[j].kind = "track"
              /\ call[j].ev.event_id = call[i].ev.parent_event_id
              /\ call[j].ev.transaction_id = call[i].ev.transaction_id

C18_FailureEventTracked ==
    (op.pc = "done" /\ op.vendorFailed)
    => Cardinality({ i \in 1..MaxCalls :
                       /\ call[i].kind = "track"
                       /\ call[i].ev.status = S_failed }) = 1

\* C19: the handler list is the sequence of the add_handler calls, repeated
\* handlers included, and every track_event call invokes along it: the n-th
\* handler a call invoked is the n-th handler registered.
C19_RegistrationOrder ==
    /\ handlers = added
    /\ \A i \in 1..MaxCalls :
          call[i].kind = "track"
          => /\ Len(call[i].invoked) <= Len(added)
             /\ \A n \in 1..Len(call[i].invoked) : call[i].invoked[n] = added[n]
    /\ \A i \in 1..MaxCalls :
          (DoneTrack(i) /\ call[i].enabledAtCall /\ call[i].outcome = "returned")
          => \A h \in HandlerIds :
                Count(call[i].invoked, h) >= Count(SubSeq(added, 1, call[i].regAtCall), h)

\* C19's case: the recording handler was added twice and a call invoked it
\* twice with its event.
C19_Witness ==
    \E i \in 1..MaxCalls :
        /\ added = << "rec", "rec" >>
        /\ DoneTrack(i)
        /\ call[i].invoked = << "rec", "rec" >>
        /\ Count(seen, << i, call[i].ev.event_id >>) = 2

\* the rows of the store whose customer_id is c
RowsOfCustomer(c) == { k \in 1..Len(table) : table[k].customer_id = c }

\* C20: the result of get_transactions_by_customer holds only rows of the
\* store with the customer_id asked for, none twice, newest first; its n-th
\* row is the (offset + n)-th newest of them; it has limit rows, or as many
\* as remain after the offset; the store is as it was before the call.
C20_QueryByCustomer ==
    query.pc = "done"
    => LET r == query.result
           ks == RowsOfCustomer(query.customer_id)
           rest == IF Cardinality(ks) > query.offset
                   THEN Cardinality(ks) - query.offset ELSE 0
       IN  /\ table = query.before
           /\ Len(r) = IF rest < query.limit THEN rest ELSE query.limit
           /\ \A n \in 1..Len(r) :
                 /\ r[n].customer_id = query.customer_id
                 /\ \E k \in ks : table[k] = r[n]
                 /\ \A m \in 1..Len(r) :
                       /\ m # n => r[m].event_id # r[n].event_id
                       /\ n < m => r[n].created_at >= r[m].created_at
                 /\ Cardinality({ k \in ks : table[k].created_at > r[n].created_at })
                       <= query.offset + n - 1
                 /\ Cardinality({ k \in ks : table[k].created_at >= r[n].created_at })
                       >= query.offset + n

\* C20's case: the store holds a row of another customer and two rows of the
\* customer asked for, the older one stored last; with limit 1 and offset 1
\* the result is the older row alone.
C20_Witness ==
    /\ query.pc = "done"
    /\ query.limit = 1 /\ query.offset = 1
    /\ Len(table) = 3
    /\ table[1].customer_id # query.customer_id
    /\ table[2].customer_id = query.customer_id
    /\ table[3].customer_id = query.customer_id
    /\ table[3].created_at < table[2].created_at
    /\ query.result = << table[3] >>

\* C21: a get_resource_records call returns the rows of the store with the
\* resource_id and processor asked for, all of them and no others, oldest
\* first.
C21_ResourceRecords ==
    records.pc = "done"
    => /\ records.outcome = "returned"
       /\ LET r == records.result
              ks == { k \in 1..Len(table) :
                        /\ ColumnOf(table[k], "resource_id") = records.resource_id
                        /\ ColumnOf(table[k], "payment_processor") = records.processor }
          IN  /\ Len(r) = Cardinality(ks)
              /\ \A k \in ks : \E n \in 1..Len(r) : r[n] = table[k]
              /\ \A n, m \in 1..Len(r) : n < m => r[n].created_at <= r[m].created_at

\* get_resource_records raises AttributeError whatever the store holds and
\* whatever it is asked for, and leaves the store alone
C21_AlwaysAttributeError ==
    records.pc = "done"
    => records.outcome = "AttributeError" /\ table = records.before

\* the storage operations that are neither uncalled nor ended
StorageInProgress == { i \in 1..MaxCalls : storage.frames[i].pc \notin {"idle", "done"} }

\* C22: every storage operation that has ended on an initialised database
\* acquired exactly one session, and no session is open while no storage
\* operation is in progress.
C22_ScopedSessions ==
    /\ \A i \in 1..MaxCalls :
          (storage.frames[i].pc = "done" /\ storage.frames[i].outcome # "RuntimeError")
          => storage.frames[i].opened = 1
    /\ StorageInProgress = {} => storage.open = 0

\* every open session belongs to an operation in progress, one each; an
\* operation that ended holds none, however it ended
C22_NoSessionLeft ==
    /\ storage.open = Cardinality({ i \in 1..MaxCalls :
                                      storage.frames[i].pc \in {"session", "executed", "exit"} })
    /\ \A i \in 1..MaxCalls : storage.frames[i].opened <= 1

\* create_transaction, get_transaction and get_transactions_by_customer, on
\* an initialised database, end having acquired one session each
C22_OtherOperationsScoped ==
    \A i \in 1..MaxCalls :
        ( /\ storage.frames[i].pc = "done"
          /\ storage.frames[i].name # "get_resource_records"
          /\ storage.frames[i].outcome # "RuntimeError" )
        => storage.frames[i].opened = 1

\* C23: one _make_request call, of either client, sends at most max_retries
\* requests for its operation, and every call that was started ends.
C23_BoundedRetry ==
    /\ [](req.sent <= req.max_retries)
    /\ (req.pc # "idle") ~> (req.pc = "done")

\* C23's case: a PayPal call configured with max_retries = MaxRetries whose
\* requests were answered 401 and then with errors used every attempt, sent
\* token requests besides, and ended raising.
C23_Witness ==
    /\ req.pc = "done" /\ req.vendor = "paypal"
    /\ req.max_retries = MaxRetries /\ req.sent = MaxRetries
    /\ req.token_sent > 0
    /\ req.outcome = "raised"

\* C24: every request a call site sends to change state at the vendor (a
\* POST) carries an idempotency key, the same one on every attempt.
C24_IdempotentRetries ==
    (req.sent > 0 /\ req.method = "POST")
    => (req.key # None /\ req.keys = {req.key})

\* the attempts of one _make_request call all carry the header the call was
\* given: its key, or none
C24_SameHeaderOnRetries == req.sent > 0 => req.keys = {req.key}

\* C29: a StripeClient._make_request call whose last answer was 401 ends
\* raising StripeAuthenticationError, and one whose last answer was another
\* error status ends raising StripeAPIError with the vendor's message and the
\* HTTP status.
C29_RootCauseKept ==
    (req.pc = "done" /\ req.vendor = "stripe")
    => /\ req.last = "401" => req.error.class = "StripeAuthenticationError"
       /\ req.last = "500"
            => req.error = [ class |-> "StripeAPIError", message |-> "vendor message",
                             http_status |-> "500" ]

\* whatever error Stripe answers, the call raises the generic StripeAPIError
\* of "except Exception", without an HTTP status, and only on its last pass
C29_GenericErrorAfterRetries ==
    (req.pc = "done" /\ req.vendor = "stripe" /\ req.last \in {"401", "500", "500html", "transport"})
    => /\ req.error = [ class |-> "StripeAPIError", message |-> "Stripe request failed",
                        http_status |-> None ]
       /\ req.sent = req.max_retries

\* C30: a PayPalClient._make_request call of a client configured with at
\* least one attempt ends either returning the JSON body of a successful
\* response or raising.
C30_ReturnsJsonOrRaises ==
    (req.pc = "done" /\ req.vendor = "paypal" /\ req.max_retries >= 1)
    => req.outcome \in {"returned json", "raised"}

\* a PayPal call returns None exactly when its last pass was answered 401 and
\* the token refresh succeeded, or when max_retries is 0
C30_NoneAfter401 ==
    (req.pc = "done" /\ req.vendor = "paypal" /\ req.outcome = "returned None")
    => \/ req.max_retries = 0
       \/ req.last = "401" /\ req.sent = req.max_retries /\ req.access_token = "token"

\* C25: every handle_payment_event call that has ended, made while the
\* mapper held its storage handle and not met by a storage failure, leaves a
\* stored record with the event's event_id, whether or not the event carries
\* amount and currency.
C25_EveryEventStored ==
    \A i \in 1..MaxCalls :
        (DoneHandle(i) /\ call[i].dbAtCall = "db" /\ ~call[i].sfail)
        => RowsOf(call[i].ev.event_id) # {}

\* C25 holds of the events that carry amount and currency; an event without
\* them ends in ValidationError
C25_EventsWithAmountStored ==
    \A i \in 1..MaxCalls :
        (DoneHandle(i) /\ call[i].dbAtCall = "db" /\ ~call[i].sfail)
        => IF TransactionBaseValidates(call[i].ev)
           THEN RowsOf(call[i].ev.event_id) # {}
           ELSE call[i].outcome = "ValidationError"

\* the two capture operations
CaptureOps == { "paypal.Order.capture", "stripe.PaymentIntent.capture" }

\* C26: a capture operation whose vendor request succeeded has submitted
\* exactly one event to the tracker, and the status the mapper derives from
\* that event is SUCCEEDED.
C26_CaptureTracked ==
    (op.pc = "done" /\ op.name \in CaptureOps /\ ~op.vendorFailed)
    => /\ Cardinality({ i \in 1..MaxCalls : call[i].kind = "track" }) = 1
       /\ \A i \in 1..MaxCalls :
             call[i].kind = "track"
             => _map_event_to_status(call[i].ev.event_type, call[i].ev.status)
                  = "succeeded"

\* no capture operation ever submits an event: Order.capture ends with
\* AttributeError after a successful vendor request, PaymentIntent.capture
\* returns its result
C26_NoCaptureEvent ==
    (op.pc = "done" /\ op.name \in CaptureOps)
    => /\ \A i \in 1..MaxCalls : call[i].kind # "track"
       /\ ~op.vendorFailed
            => op.result = IF op.name = "paypal.Order.capture"
                           THEN "AttributeError" ELSE "ok"

\* the track_event calls made for the current context: the one for its event
\* and those for failure events that name it as their parent
ContextEventCalls ==
    { i \in 1..MaxCalls : call[i].kind = "track" /\ call[i].ev = tpe.event }

ContextFailureCalls ==
    { i \in 1..MaxCalls :
        /\ call[i].kind = "track"
        /\ call[i].ev.status = S_failed
        /\ call[i].ev.parent_event_id = tpe.event.event_id }

\* C27: when the body of a track_payment_event context raised an Exception X
\* and the context has ended, exactly one failure event was submitted to the
\* tracker for it, with status "failed", with the transaction_id, processor
\* and resource_id of the context's event and that event's event_id as its
\* parent_event_id, and, track_event having returned for it, the context
\* ended raising X.
C27_FailurePath ==
    ( /\ tpe.pc = "done" /\ IsException(tpe.body)
      /\ \A i \in ContextFailureCalls : call[i].outcome = "returned" )
    => /\ Cardinality(ContextFailureCalls) = 1
       /\ \A i \in ContextFailureCalls :
             /\ call[i].ev.transaction_id = tpe.event.transaction_id
             /\ call[i].ev.processor = tpe.event.processor
             /\ call[i].ev.resource_id = tpe.event.resource_id
       /\ tpe.outcome = tpe.body

\* C27 holds when X is an Exception, the event type is not
\* TRANSACTION_COMPLETED and track_event returns for the failure event; a
\* body that ends with CancelledError gets no failure event
C27_FailurePathOfOtherTypes ==
    (tpe.pc = "done" /\ tpe.body \notin {None, "completed"})
    => /\ IsException(tpe.body)
            => /\ Cardinality(ContextFailureCalls) = 1
               /\ \A i \in ContextFailureCalls :
                     /\ call[i].ev.transaction_id = tpe.event.transaction_id
                     /\ call[i].ev.processor = tpe.event.processor
                     /\ call[i].ev.resource_id = tpe.event.resource_id
                     /\ (call[i].outcome = "returned"
                         /\ tpe.event.event_type # "TRANSACTION_COMPLETED")
                        => tpe.outcome = tpe.body
       /\ ~IsException(tpe.body)
            => /\ ContextFailureCalls = {}
               /\ tpe.event.event_type # "TRANSACTION_COMPLETED"
                    => tpe.outcome = tpe.body

\* C28: when the body of a track_payment_event context completed and the
\* context has ended, one event, the context's, was submitted to the tracker
\* for it, and the context ended without raising, whatever the event type.
C28_NormalPath ==
    (tpe.pc = "done" /\ tpe.body = "completed")
    => /\ Cardinality(ContextEventCalls) = 1
       /\ ContextFailureCalls = {}
       /\ tpe.outcome = "returned"

\* C28 holds for the event types other than TRANSACTION_COMPLETED; with it
\* the context ends with AttributeError
C28_NormalPathOfOtherTypes ==
    (tpe.pc = "done" /\ tpe.body = "completed")
    => /\ Cardinality(ContextEventCalls) = 1
       /\ ContextFailureCalls = {}
       /\ tpe.outcome = IF tpe.event.event_type = "TRANSACTION_COMPLETED"
                        THEN "AttributeError" ELSE "returned"

\* the initialize calls made with a supported db_type
SupportedInits == { n \in 1..Len(initLog) : initLog[n].db_type \in DatabaseType }

C31_NeverRegistered ==
    /\ Count(handlers, "mapper") = 0
    /\ \A n \in 1..Len(initLog) : initLog[n].outcome \in {"TypeError", "ValueError"}

\* C32: an initialize call that ends with an exception found _initialized
\* false and leaves it false, leaves _db unset, and leaves the handler list
\* and the tracking flag as they were.
C32_FailedInitializeLeavesNoState ==
    [][ ( /\ Len(initLog') > Len(initLog)
          /\ initLog'[Len(initLog')].outcome # "returned" )
        => /\ ~initialized /\ ~initialized'
           /\ db' = None
           /\ handlers' = handlers
           /\ tracking_enabled' = tracking_enabled ]_vars

\* C32's case: an initialize call failed on an unsupported db_type and a
\* later one was attempted and failed in creating the backend, on a tracker a
\* caller had enabled: the flag is still set, nothing is registered, the
\* mapper is as constructed.
C32_Witness ==
    /\ Len(initLog) = 2
    /\ initLog[1].outcome = "ValueError"
    /\ initLog[2].outcome = "TypeError"
    /\ tracking_enabled
    /\ ~initialized /\ db = None /\ handlers = <<>>

\* C33: a fresh tracker has tracking disabled and no handlers; a step that
\* changes the handler list leaves the enabled flag alone and a step that changes
\* the flag leaves the handler list alone; a track_event call made while tracking
\* is disabled never invokes a handler, then or later, and a call made while
\* tracking is enabled invokes the registered handlers in their order.
C33_TrackerState ==
    /\ (~tracking_enabled /\ handlers = <<>>)
    /\ [][ /\ handlers' # handlers => tracking_enabled' = tracking_enabled
           /\ tracking_enabled' # tracking_enabled => handlers' = handlers
           /\ \A i \in 1..MaxCalls :
                 (call'[i].kind = "track" /\ ~call'[i].enabledAtCall)
                 => /\ call'[i].invoked = <<>>
                    /\ \A n \in 1..Len(seen') : seen'[n][1] # i
           /\ \A i \in 1..MaxCalls :
                 (call'[i].kind = "track" /\ call'[i].enabledAtCall
                    /\ call'[i].pc = "done" /\ call'[i].outcome = "returned")
                 => /\ Len(call'[i].invoked) >= call'[i].regAtCall
                    /\ Len(call'[i].invoked) <= Len(handlers')
                    /\ call'[i].invoked
                          = SubSeq(handlers', 1, Len(call'[i].invoked)) ]_vars

\* C33's case: two handlers are registered; the first event was tracked while
\* tracking was disabled and reached nobody, tracking was enabled afterwards, and
\* the second event reached both handlers in their order.
C33_Witness ==
    /\ handlers = << "rec", "thrower" >>
    /\ call[1].kind = "track" /\ call[1].pc = "done"
    /\ ~call[1].enabledAtCall /\ call[1].regAtCall = 2
    /\ call[1].invoked = <<>>
    /\ call[2].kind = "track" /\ call[2].pc = "done"
    /\ call[2].enabledAtCall
    /\ call[2].invoked = << "rec", "thrower" >>
    /\ call[2].ev.event_id # call[1].ev.event_id
    /\ \A n \in 1..Len(seen) : seen[n][1] = 2

(* ------------------------------------------------------------------ *)
(* processor_metadata of a record (db/init.py, lines 66-69)            *)
(* ------------------------------------------------------------------ *)

\* everything the calls examined on their own leave alone
coreVars == << trackerVars, mapperVars, table, callVars, op, statusVars,
               txn, query, tpe, records, storage, req, initLog >>

\* the keys and values of a vendor's processor_metadata
MetaKeys == {"event_type", "data", "status"}
MetaValues == {"payment_captured", "charge.succeeded"}

\* the values of PaymentEventType the mapping is examined with
MetaEventTypes == {"payment_captured", "payment_failed", "customer_created"}

\* PaymentEvent.processor_metadata: any dict
VendorMetadata == UNION { [ ks -> MetaValues ] : ks \in SUBSET MetaKeys }

\* the dict display {**a, **b}: the items of a, then those of b; a key of b
\* replaces the same key of a
DictMerge(a, b) ==
    [ k \in (DOMAIN a) \cup (DOMAIN b) |-> IF k \in DOMAIN b THEN b[k] ELSE a[k] ]

\* {"event_type": event.event_type.value, **event.processor_metadata}
ProcessorMetadata(event_type, processor_metadata) ==
    DictMerge([ k \in {"event_type"} |-> event_type ], processor_metadata)

\* PaymentEvent(event_type=..., processor_metadata=...)
BuildEvent(event_type, processor_metadata) ==
    /\ meta.pc = "idle"
    /\ meta' = [ meta EXCEPT !.pc = "built", !.event_type = event_type,
                             !.vendor = processor_metadata ]
    /\ UNCHANGED << coreVars, besidesMeta >>

\* handle_payment_event, lines 56-73, and the values of create_transaction,
\* model.py line 89: the record's processor_metadata
StoreMetadata ==
    /\ meta.pc = "built"
    /\ meta' = [ meta EXCEPT !.pc = "stored",
                             !.stored = ProcessorMetadata(meta.event_type, meta.vendor) ]
    /\ UNCHANGED << coreVars, besidesMeta >>

NextMeta ==
    \/ \E t \in MetaEventTypes, pm \in VendorMetadata : BuildEvent(t, pm)
    \/ StoreMetadata

SpecMeta == Init /\ [][NextMeta]_vars

\* C34: the processor_metadata of a stored record has the key event_type with
\* the value of the event's own event_type, whatever keys the vendor's
\* processor_metadata has, and every other vendor key is carried over unchanged.
C34_EventTypeTag ==
    meta.pc = "stored"
    => /\ "event_type" \in DOMAIN meta.stored
       /\ meta.stored["event_type"] = meta.event_type
       /\ \A k \in (DOMAIN meta.vendor) \ {"event_type"} :
             k \in DOMAIN meta.stored /\ meta.stored[k] = meta.vendor[k]
       /\ DOMAIN meta.stored = (DOMAIN meta.vendor) \cup {"event_type"}

\* what holds instead: every vendor key is carried over, "event_type"
\* included, and the tag is the event's own type only when the vendor sent no
\* such key.
C34_VendorKeyWins ==
    meta.pc = "stored"
    => /\ DOMAIN meta.stored = (DOMAIN meta.vendor) \cup {"event_type"}
       /\ \A k \in DOMAIN meta.vendor : meta.stored[k] = meta.vendor[k]
       /\ "event_type" \notin DOMAIN meta.vendor
          => meta.stored["event_type"] = meta.event_type

(* ------------------------------------------------------------------ *)
(* Idempotency keys of the PayPal requests (resources/paypal.py)       *)
(* ------------------------------------------------------------------ *)

\* the invoices orders are created and captured for
InvoiceIds == {"INV2-A", "INV2-B"}

\* f"INV-{int(datetime.now().timestamp())}": the clock in whole seconds
InvoiceKey(now) == << "INV-", now >>

\* idempotency_key=invoice.invoice_id, idempotency_key=invoice_id
InvoiceIdKey(invoice_id) == << invoice_id >>

\* the request of a vendor operation, with its PayPal-Request-Id
SendKeyed(name, invoice_id, key) ==
    /\ Len(keys.sent) < MaxRequests
    /\ keys' = [ keys EXCEPT !.sent = Append(@, [ op |-> name, invoice |-> invoice_id,
                                                  at |-> keys.now, key |-> key ]) ]
    /\ UNCHANGED << coreVars, besidesKeys >>

\* a second passes
Tick ==
    /\ keys.now < MaxClock
    /\ keys' = [ keys EXCEPT !.now = @ + 1 ]
    /\ UNCHANGED << coreVars, besidesKeys >>

\* Invoice.create, lines 77-82
InvoiceCreate == SendKeyed("Invoice.create", None, InvoiceKey(keys.now))

\* Order.create_from_invoice, lines 250-252
OrderCreateFromInvoice(invoice_id) ==
    SendKeyed("Order.create_from_invoice", invoice_id, InvoiceIdKey(invoice_id))

\* Order.capture, lines 289-293
OrderCapture(invoice_id) ==
    SendKeyed("Order.capture", invoice_id, InvoiceIdKey(invoice_id))

NextKeys ==
    \/ Tick
    \/ InvoiceCreate
    \/ \E v \in InvoiceIds : OrderCreateFromInvoice(v)
    \/ \E v \in InvoiceIds : OrderCapture(v)

SpecKeys == Init /\ [][NextKeys]_vars

\* C35: two distinct vendor operations never send the same idempotency key:
\* two invoice creations send different keys, and the order creation and the
\* capture of one invoice send different keys.
C35_DistinctKeys ==
    \A i, j \in 1..Len(keys.sent) :
        ( /\ i # j
          /\ \/ keys.sent[i].op = "Invoice.create" /\ keys.sent[j].op = "Invoice.create"
             \/ /\ keys.sent[i].op = "Order.create_from_invoice"
                /\ keys.sent[j].op = "Order.capture"
                /\ keys.sent[i].invoice = keys.sent[j].invoice )
        => keys.sent[i].key # keys.sent[j].key

\* what holds instead: invoice creations of different seconds, and the
\* requests for different invoices, send different keys, and no invoice
\* creation shares a key with an order request.
C35_KeysPerSecondAndInvoice ==
    \A i, j \in 1..Len(keys.sent) :
        LET a == keys.sent[i]
            b == keys.sent[j]
        IN  /\ (a.op = "Invoice.create" /\ b.op = "Invoice.create" /\ a.at # b.at)
               => a.key # b.key
            /\ (a.op # "Invoice.create" /\ b.op # "Invoice.create"
                  /\ a.invoice # b.invoice)
               => a.key # b.key
            /\ (a.op = "Invoice.create" /\ b.op # "Invoice.create")
               => a.key # b.key

(* ------------------------------------------------------------------ *)
(* PaymentIntent.confirm_and_capture (resources/stripe.py)             *)
(* ------------------------------------------------------------------ *)

\* how the confirm request ends: the status of the JSON returned, a JSON
\* without the keys read, or the error of _make_request
ConfirmAnswers ==
    { "requires_capture", "requires_payment_method", "requires_action",
      "succeeded", "KeyError", "StripeAPIError" }

\* how the capture request ends
CaptureAnswers == { "succeeded", "requires_capture", "StripeAPIError" }

\* the exceptions of the two requests
IntentErrors == { "KeyError", "StripeAPIError" }

\* PaymentIntent.confirm after its request, lines 344-351: what it raises
\* (None when it returns)
ConfirmRaises(answer) ==
    IF answer \in IntentErrors THEN answer
    ELSE IF answer = "requires_payment_method" THEN "StripePaymentIntentError"
    ELSE None

\* PaymentIntent.capture after its request, lines 363-372: what it raises
CaptureRaises(answer) ==
    IF answer \in IntentErrors THEN answer
    ELSE IF answer # "succeeded" THEN "StripePaymentIntentError"
    ELSE None

\* confirm_and_capture, line 381: a capture request follows even when the
\* confirmed intent is in another status
CaptureFollowsAnyStatus(status) == TRUE

\* confirm_and_capture, line 381
CaptureFollows(status) == status = "requires_capture"

\* confirm_and_capture, line 379, up to the confirm request; confirm raises
\* ValueError when no client is configured
confirm_and_capture(p, configured) ==
    /\ intent[p].pc = "idle"
    /\ intent' = [ intent EXCEPT ![p] =
                      IF configured
                      THEN [ @ EXCEPT !.pc = "confirming",
                                      !.requests = Append(@, "confirm") ]
                      ELSE [ @ EXCEPT !.pc = "done", !.outcome = "raised",
                                      !.error = "ValueError" ] ]
    /\ UNCHANGED << coreVars, besidesIntent >>

\* the confirm request ends: lines 344-351 and 379-386, up to the capture
\* request
ConfirmAnswered(p, answer) ==
    /\ intent[p].pc = "confirming"
    /\ intent' = [ intent EXCEPT ![p] =
                      IF ConfirmRaises(answer) # None
                      THEN [ @ EXCEPT !.pc = "done", !.confirm = answer,
                                      !.outcome = "raised",
                                      !.error = ConfirmRaises(answer) ]
                      ELSE IF CaptureFollows(answer)
                      THEN [ @ EXCEPT !.pc = "capturing", !.confirm = answer,
                                      !.requests = Append(@, "capture") ]
                      ELSE [ @ EXCEPT !.pc = "done", !.confirm = answer,
                                      !.outcome = "raised",
                                      !.error = "StripePaymentIntentError" ] ]
    /\ UNCHANGED << coreVars, besidesIntent >>

\* the capture request ends: lines 363-372 and 382-383
CaptureAnswered(p, answer) ==
    /\ intent[p].pc = "capturing"
    /\ intent' = [ intent EXCEPT ![p] =
                      IF CaptureRaises(answer) # None
                      THEN [ @ EXCEPT !.pc = "done", !.capture = answer,
                                      !.outcome = "raised",
                                      !.error = CaptureRaises(answer) ]
                      ELSE [ @ EXCEPT !.pc = "done", !.capture = answer,
                                      !.outcome = "returned" ] ]
    /\ UNCHANGED << coreVars, besidesIntent >>

NextIntent ==
    \/ \E p \in IntentIds, c \in BOOLEAN : confirm_and_capture(p, c)
    \/ \E p \in IntentIds, a \in ConfirmAnswers : ConfirmAnswered(p, a)
    \/ \E p \in IntentIds, a \in CaptureAnswers : CaptureAnswered(p, a)

SpecIntent == Init /\ [][NextIntent]_vars

\* C36: a capture request is sent for a payment intent only after its confirm
\* request returned the status requires_capture; after any other end of the
\* confirm request no capture request is sent and the call raises
\* StripePaymentIntentError, or the error the confirm step raised.
C36_CaptureAfterConfirm ==
    \A p \in IntentIds :
        LET c == intent[p]
            captures == { n \in 1..Len(c.requests) : c.requests[n] = "capture" }
        IN  /\ \A n \in captures :
                  /\ c.confirm = "requires_capture"
                  /\ n = 2
                  /\ c.requests[1] = "confirm"
            /\ (c.pc \notin {"idle", "confirming"} /\ c.confirm # "requires_capture")
               => /\ captures = {}
                  /\ c.pc = "done"
                  /\ c.outcome = "raised"
                  /\ c.error = IF c.confirm \in IntentErrors THEN c.confirm
                                ELSE IF c.confirm = None THEN "ValueError"
                                ELSE "StripePaymentIntentError"

\* C36's case: one intent was confirmed with requires_capture and then
\* captured; the other was confirmed with another status, and its call raised
\* StripePaymentIntentError after the confirm request alone.
C36_Witness ==
    /\ intent["pi_1"].pc = "done"
    /\ intent["pi_1"].requests = << "confirm", "capture" >>
    /\ intent["pi_1"].outcome = "returned"
    /\ intent["pi_2"].pc = "done"
    /\ intent["pi_2"].confirm = "succeeded"
    /\ intent["pi_2"].requests = << "confirm" >>
    /\ intent["pi_2"].error = "StripePaymentIntentError"

(* ------------------------------------------------------------------ *)
(* Customer.create_or_get (resources/stripe.py, clients/stripe.py)     *)
(* ------------------------------------------------------------------ *)

\* texts, as their words
AlreadyExists == << "already", "exists" >>
Duplicate == << "duplicate" >>
StripeRequestFailed == << "Stripe", "request", "failed" >>
FailedToCreateStripeCustomer == << "Failed", "to", "create", "Stripe", "customer" >>

\* the error texts of the vendor's rejections of POST /v1/customers
RejectionTexts ==
    { << "Customer", "already", "exists" >>, << "duplicate", "email" >>,
      << "Invalid", "email" >> }

\* how the request POST /v1/customers can be answered: the customer's JSON, a
\* JSON without "id", a rejection with its error text, a transport error, or
\* the cancellation of the task
CreateAnswers ==
    { [ status |-> c, message |-> << >> ] :
        c \in {"200", "200 no id", "transport", "cancelled"} }
    \cup { [ status |-> "400", message |-> t ] : t \in RejectionTexts }

\* phrase in text
Contains(text, phrase) ==
    \E n \in 1..Len(text) :
        /\ n + Len(phrase) - 1 <= Len(text)
        /\ SubSeq(text, n, n + Len(phrase) - 1) = phrase

\* create_or_get, lines 429-430:
\* "already exists" in error_message or "duplicate" in error_message
MentionsExisting(error_message) ==
    Contains(error_message, AlreadyExists) \/ Contains(error_message, Duplicate)

\* what the try block of _make_request raises on the answer (clients/stripe.py,
\* lines 95-108), NoError when it returns the JSON
CustomerThrown(a) ==
    IF a.status = "400"
    THEN Construct("StripeAPIError", a.message,
                   [ http_status |-> "400", json_body |-> "error_data" ])
    ELSE IF a.status = "transport" THEN Foreign("TransportError")
    ELSE IF a.status = "cancelled" THEN Foreign("CancelledError")
    ELSE NoError

\* "except Exception as e" of create_or_get, lines 428-435, caught e; the
\* customer exists at the vendor or not
CreationFailed(c, e) ==
    IF e.message # None /\ MentionsExisting(e.message)
    THEN \* cls.get(email=...): the search request, lines 450-455 and 476-479
         IF c.exists
         THEN [ c EXCEPT !.pc = "done", !.caught = e, !.searched = TRUE,
                         !.outcome = "returned existing" ]
         ELSE [ c EXCEPT !.pc = "done", !.caught = e, !.searched = TRUE,
                         !.outcome = "raised",
                         !.error = Construct("StripeCustomerRetrievalError",
                                             << "Failed", "to", "retrieve", "customer" >>,
                                             << >>) ]
    ELSE [ c EXCEPT !.pc = "done", !.caught = e, !.outcome = "raised",
                    !.error = Construct("StripeCustomerCreationError",
                                        << "Failed", "to", "create", "customer" >>,
                                        << >>) ]

\* _make_request returned None: its loop made no pass (line 415)
NoResponse(c) ==
    CreationFailed(c, Construct("StripeCustomerCreationError",
                                FailedToCreateStripeCustomer, << >>))

\* create_or_get(customer_data) of a client with max_retries, up to the first
\* request; the customer with this email exists at the vendor or not
create_or_get(email, max_retries, exists) ==
    /\ customer.pc = "idle"
    /\ LET c == [ NoCustomer EXCEPT !.pc = "creating", !.email = email,
                                    !.max_retries = max_retries, !.exists = exists ]
       IN  customer' = IF AttemptsAllowed(max_retries) > 0 THEN c ELSE NoResponse(c)
    /\ UNCHANGED << coreVars, besidesCustomer >>

\* the request of the current pass is answered: clients/stripe.py lines
\* 84-117, then create_or_get lines 415-435
CreateAnswered(a) ==
    /\ customer.pc = "creating"
    /\ LET c == [ customer EXCEPT !.last = a ] IN
       customer' =
         IF a.status = "200"
         THEN [ c EXCEPT !.pc = "done", !.outcome = "returned created" ]
         ELSE IF a.status = "200 no id" THEN NoResponse(c)
         ELSE IF a.status = "cancelled"
         THEN [ c EXCEPT !.pc = "done", !.outcome = "raised",
                         !.error = CustomerThrown(a) ]
         ELSE IF c.attempt = c.max_retries - 1
         THEN CreationFailed(c, Construct("StripeAPIError", StripeRequestFailed,
                                          << >>))
         ELSE [ c EXCEPT !.attempt = @ + 1 ]
    /\ UNCHANGED << coreVars, besidesCustomer >>

NextCustomer ==
    \/ \E email \in {"a@x.io", "b@x.io"}, m \in 0..MaxRetries, exists \in BOOLEAN :
          create_or_get(email, m, exists)
    \/ \E a \in CreateAnswers : CreateAnswered(a)

SpecCustomer == Init /\ [][NextCustomer]_vars

\* C37: when the vendor rejects the creation because the customer exists (an
\* error text with "already exists" or "duplicate"), create_or_get returns the
\* existing customer looked up by email; after any other creation failure it
\* raises StripeCustomerCreationError.
C37_ExistingCustomerReturned ==
    LET rejectedAsExisting ==
            customer.last.status = "400" /\ MentionsExisting(customer.last.message)
    IN  customer.pc = "done"
        => /\ (rejectedAsExisting /\ customer.exists)
              => (customer.searched /\ customer.outcome = "returned existing")
           /\ (customer.last.status \in {"400", "transport", "200 no id"}
                 /\ ~rejectedAsExisting)
              => /\ customer.outcome = "raised"
                 /\ customer.error.class = "StripeCustomerCreationError"

\* what holds instead: the text create_or_get tests is never the vendor's, the
\* customer is never looked up, and every creation failure but a cancellation
\* raises StripeCustomerCreationError.
C37_AlwaysCreationError ==
    /\ ~customer.searched
    /\ customer.caught # NoError
       => customer.caught.message \in {StripeRequestFailed, FailedToCreateStripeCustomer}
    /\ (customer.pc = "done" /\ customer.outcome # "returned created"
          /\ customer.last.status # "cancelled")
       => /\ customer.outcome = "raised"
          /\ customer.error.class = "StripeCustomerCreationError"

(* ------------------------------------------------------------------ *)
(* PaymentEvent.created_at (db/event_tracking.py, line 60)             *)
(* ------------------------------------------------------------------ *)

\* the clock when db/event_tracking.py was imported and the class body of
\* PaymentEvent ran: the clock of the initial state
ImportTime == NoKeys.now

\* the default of the field created_at, "datetime.now()" in the class body:
\* a value computed once, when the class was defined
CreatedAtDefault(now) == ImportTime

\* PaymentEvent(event_type=...) with no created_at given, as every caller in
\* this repository constructs it
ConstructEvent(event_type) ==
    /\ Len(made) < MaxEvents
    /\ made' = Append(made, [ event_type |-> event_type, constructed_at |-> keys.now,
                              created_at |-> CreatedAtDefault(keys.now) ])
    /\ UNCHANGED << coreVars, besidesMade >>

NextMade ==
    \/ Tick
    \/ \E t \in {"payment_captured", "payment_failed"} : ConstructEvent(t)

SpecMade == Init /\ [][NextMade]_vars

\* C38: the created_at of an event is the time of its construction: of two
\* events constructed at different times each carries its own construction
\* time, so the later one has the later created_at and the two values differ.
C38_OwnConstructionTime ==
    \A i, j \in 1..Len(made) :
        made[i].constructed_at < made[j].constructed_at
        => /\ made[i].created_at = made[i].constructed_at
           /\ made[j].created_at = made[j].constructed_at
           /\ made[i].created_at < made[j].created_at

\* what holds instead: every event carries the time the module was imported,
\* and a constructed event is not changed afterwards.
C38_AllShareImportTime ==
    [][ /\ \A i \in 1..Len(made') : made'[i].created_at = ImportTime
        /\ \A i \in 1..Len(made) : made'[i] = made[i] ]_vars

\* C39: whichever way the body of a payment_transaction context ends (it
\* completes, it raises an ordinary exception, or its task is cancelled),
\* __aexit__ runs exactly once, and an exception of the body is raised again
\* afterwards.
C39_TeardownOnEveryPath ==
    txn.pc = "exited"
    => /\ txn.exits = 1
       /\ txn.body # None => txn.outcome = txn.body
       /\ txn.body = None => txn.outcome = "returned"

\* what holds instead: __aexit__ runs once after a completed body and after an
\* Exception, and not at all after a cancellation; what the body raised is
\* raised again in every case.
C39_TeardownUnlessCancelled ==
    /\ txn.pc # "exited" => txn.exits = 0
    /\ txn.pc = "exited"
       => /\ txn.exits = IF txn.body = "CancelledError" THEN 0 ELSE 1
          /\ txn.body # None => txn.outcome = txn.body
          /\ txn.body = None => txn.outcome = "returned"

====
